---- MODULE Spec2Model ----
(***************************************************************************)
(* adk2goose: the session registry (internal/proxy/session.go), the ADK    *)
(* REST handlers (internal/proxy/handler.go), the Goose client's streaming *)
(* reply (gooseclient.Client.Reply) and the event translator.              *)
(*                                                                         *)
(* Spec      : concurrent inbound requests against one SessionManager.     *)
(*             Every statement of GetOrCreate, Stop, GetGooseSessionID and *)
(*             ListMappedSessions is one step; sync.RWMutex is modelled by *)
(*             muWriter / muReaders.                                       *)
(* SpecTurn  : one streaming turn after Client.Reply returned its channel: *)
(*             the producer goroutine of Reply, the loop of handleRunSSE,  *)
(*             the caller's cancellation and the translator.               *)
(* SpecReply : one call of Client.Reply up to its return: the HTTP client  *)
(*             (http.Client{}, which follows redirects), the status check. *)
(* SpecTranslate : the translator's functions applied to one input drawn   *)
(*             from bounded catalogues of events, tool results, contents.  *)
(* SpecFair, SpecTurnFair : Spec and SpecTurn under the scheduling the     *)
(*             runtime gives (weak fairness of the running goroutines).    *)
(* SpecStopDuringTurn : the registry's DELETE and run_sse requests of one  *)
(*             id interleaved with a streaming turn on that id.            *)
(***************************************************************************)
EXTENDS Integers, Sequences, FiniteSets, TLC

\* ------------------------------------------------------------------ bounds
MaxRequests == 3
MaxLines == 3
MaxHops == 2
MaxFairRequests == 2
MaxParts == 2
MaxSubParts == 2
MaxRepeats == 2
MaxClock == 2

\* Two request slots: the races of the registry are between two requests.
Procs == {1, 2}
NoProc == 0
ExtIds == {"a", "b"}
GooseIds == {"g1", "g2"}
Bodies == {"malformed", "nomsg", "msg"}

\* --------------------------------------------------------------- constants
StatusOK == 200
StatusBadRequest == 400
StatusInternalServerError == 500
StatusBadGateway == 502

ErrNil == "nil"
ErrNotFound == "no goose session for ADK session"
ErrBackend == "backend call failed"   \* any error doJSON or Reply returns

VARIABLES
  adkToGoose,   \* SessionManager.adkToGoose
  gooseToADK,   \* SessionManager.gooseToADK
  muWriter,     \* the holder of sm.mu's exclusive lock, or NoProc
  muReaders,    \* the holders of sm.mu's shared lock
  procs,        \* one inbound request per slot: its position and locals
  requests,     \* inbound requests accepted so far
  nStartOK,     \* history: successful StartAgent calls per external id since
                \*          its forward entry was last deleted
  lockSnap,     \* history: both tables as they were when the exclusive lock
                \*          was last acquired (NoSnap while it is free)
  pcP,          \* the producer goroutine of Client.Reply: scan | send | closed
  pcB,          \* the loop of handleRunSSE: select | translate | write |
                \*          ended | cancelled | panicked
  ctxDone,      \* r.Context(): "no", or who cancelled it ("caller", "server")
  nRead,        \* body lines the scanner has returned
  pending,      \* the event the producer is sending (<<>> or <<event>>)
  got,          \* the event the loop has received (<<>> or <<event>>)
  out,          \* the translated event to write (<<>> or <<adkEvent>>)
  frames,       \* the frames written to the caller
  decoded,      \* history: the events decoded from the body, in order
  nRecv,        \* history: events the loop has received
  cancelSnap,   \* history: <<>>, or what the loop had written and held
                \*          when the caller's cancellation fired
  nClose,       \* history: how many times close(ch) has run
  lines,        \* history: the body lines the scanner has consumed, in order
  rpc,          \* Client.Reply: do | check | failed | source
  resp,         \* the response c.HTTP.Do is holding or has returned
  answered,     \* history: the status the backend gave the POST /reply itself
  hops,         \* redirects the HTTP client has followed
  bodyOpen,     \* the body of the response Reply received is open
  chMade,       \* make(chan SSEEvent) has run
  producerUp,   \* the producer goroutine has been started
  tin,          \* translator: the input the functions are applied to
  touts,        \* the outcomes of GooseSSEEventToADKEvent on it, in order
  xout,         \* the text extractToolResultText returned
  cmsg,         \* the backend message made of the inbound content
  cback,        \* that message translated back
  tclock        \* the wall clock the translator reads

regVars == <<adkToGoose, gooseToADK, muWriter, muReaders, procs, requests,
             nStartOK, lockSnap>>

turnVars == <<pcP, pcB, ctxDone, nRead, pending, got, out, frames, decoded,
              nRecv, cancelSnap, nClose, lines>>

replyVars == <<rpc, resp, answered, hops, bodyOpen, chMade, producerUp>>

transVars == <<tin, touts, xout, cmsg, cback, tclock>>

vars == <<regVars, turnVars, replyVars, transVars>>

\* ------------------------------------------------------------ Go map ops
EmptyMap == <<>>

MapPut(m, k, v) == [x \in (DOMAIN m) \cup {k} |-> IF x = k THEN v ELSE m[x]]

MapDelete(m, k) == [x \in (DOMAIN m) \ {k} |-> m[x]]

\* ------------------------------------------------------------ request slots
IdleProc ==
  [pc |-> "idle", kind |-> "none", sid |-> "a", body |-> "msg",
   gooseID |-> "", found |-> FALSE, err |-> ErrNil, status |-> 0,
   nStart |-> 0, nStop |-> 0, nReply |-> 0, via |-> "", stale |-> FALSE,
   had |-> "", out |-> <<>>]

\* The slot p with the fields of r overwritten.
Upd(p, r) == [procs EXCEPT ![p] = r @@ procs[p]]

At(p, l) == procs[p].pc = l

\* The handler of slot p returns: its locals are gone, the response (status,
\* error text) stays with the caller, and the backend calls it issued stay on
\* record.
Answer(p, status, err) ==
  [procs EXCEPT ![p] = [IdleProc EXCEPT !.pc = "done", !.kind = procs[p].kind,
                                        !.sid = procs[p].sid, !.body = procs[p].body,
                                        !.status = status, !.err = err,
                                        !.nStart = procs[p].nStart,
                                        !.nStop = procs[p].nStop,
                                        !.nReply = procs[p].nReply]]

\* ---------------------------------------------------------- sync.RWMutex
CanRLock == muWriter = NoProc

CanLock == muWriter = NoProc /\ muReaders = {}

Tables == [a2g |-> adkToGoose, g2a |-> gooseToADK]

NoSnap == [free |-> TRUE]

\* ------------------------------------------------------------------- Init
InitRegistry ==
  /\ adkToGoose = EmptyMap
  /\ gooseToADK = EmptyMap
  /\ muWriter = NoProc
  /\ muReaders = {}
  /\ procs = [p \in Procs |-> IdleProc]
  /\ requests = 0
  /\ nStartOK = [e \in ExtIds |-> 0]
  /\ lockSnap = NoSnap

\* ------------------------------------------------- the mux: route dispatch
FirstPc(kind) ==
  CASE kind = "run" -> "runDecode"
    [] kind = "create" -> "createId"
    [] kind = "delete" -> "stopLock"
    [] kind = "lookup" -> "lkRLock"
    [] kind = "list" -> "lsRLock"

\* A slot is free before its first request and after each answer; the server
\* runs a new request in the lowest free slot (slots are interchangeable).
Free(p) == procs[p].pc \in {"idle", "done"}

Begin(p) ==
  /\ Free(p)
  /\ \A q \in Procs : q < p => ~Free(q)
  /\ requests < MaxRequests
  /\ \E kind \in {"run", "create", "delete", "lookup", "list"},
        sid \in ExtIds, body \in Bodies :
       /\ kind # "run" => body = "msg"
       /\ kind \in {"list", "create"} => sid = "a"
       /\ procs' = [procs EXCEPT ![p] =
                      [IdleProc EXCEPT !.pc = FirstPc(kind), !.kind = kind,
                                       !.sid = sid, !.body = body]]
  /\ requests' = requests + 1
  /\ UNCHANGED <<adkToGoose, gooseToADK, muWriter, muReaders, nStartOK, lockSnap>>

\* ---------------------------------------------- SessionManager.GetOrCreate
\* session.go:35  sm.mu.RLock()
GocRLock(p) ==
  /\ At(p, "gocRLock")
  /\ CanRLock
  /\ muReaders' = muReaders \cup {p}
  /\ procs' = Upd(p, [pc |-> "gocFast"])
  /\ UNCHANGED <<adkToGoose, gooseToADK, muWriter, requests, nStartOK, lockSnap>>

\* session.go:36-40  the optimistic read, RUnlock on both branches
GocFast(p) ==
  /\ At(p, "gocFast")
  /\ muReaders' = muReaders \ {p}
  /\ procs' = IF procs[p].sid \in DOMAIN adkToGoose
               THEN Upd(p, [pc |-> "gocRet", gooseID |-> adkToGoose[procs[p].sid],
                            err |-> ErrNil, via |-> "fast"])
               ELSE Upd(p, [pc |-> "gocLock"])
  /\ UNCHANGED <<adkToGoose, gooseToADK, muWriter, requests, nStartOK, lockSnap>>

\* session.go:42-43  sm.mu.Lock(); defer sm.mu.Unlock()
GocLock(p) ==
  /\ At(p, "gocLock")
  /\ CanLock
  /\ muWriter' = p
  /\ lockSnap' = Tables
  /\ procs' = Upd(p, [pc |-> "gocCheck"])
  /\ UNCHANGED <<adkToGoose, gooseToADK, muReaders, requests, nStartOK>>

DoubleCheckSkipped(p) == FALSE

\* session.go:46  the second lookup, under the exclusive lock
DoubleCheckHit(p) == procs[p].sid \in DOMAIN adkToGoose

GocCheckUnlocksForStart(p) ==
  /\ At(p, "gocCheck")
  /\ procs' = IF DoubleCheckHit(p)
               THEN Upd(p, [pc |-> "gocRet", gooseID |-> adkToGoose[procs[p].sid],
                            err |-> ErrNil, via |-> "recheck"])
               ELSE Upd(p, [pc |-> "gocStart", nStart |-> procs[p].nStart + 1])
  /\ muWriter' = NoProc
  /\ lockSnap' = NoSnap
  /\ UNCHANGED <<adkToGoose, gooseToADK, muReaders, requests, nStartOK>>

\* session.go:46-52  double check; a miss issues the StartAgent call
GocCheck(p) ==
  /\ At(p, "gocCheck")
  /\ IF DoubleCheckHit(p)
     THEN /\ procs' = Upd(p, [pc |-> "gocRet", gooseID |-> adkToGoose[procs[p].sid],
                              err |-> ErrNil, via |-> "recheck"])
          /\ muWriter' = NoProc
          /\ lockSnap' = NoSnap
     ELSE /\ procs' = Upd(p, [pc |-> "gocStart", nStart |-> procs[p].nStart + 1])
          /\ UNCHANGED <<muWriter, lockSnap>>
  /\ UNCHANGED <<adkToGoose, gooseToADK, muReaders, requests, nStartOK>>

GocStartFailInstalls(p) ==
  /\ At(p, "gocStart")
  /\ adkToGoose' = MapPut(adkToGoose, procs[p].sid, "")
  /\ procs' = Upd(p, [pc |-> "gocFail", gooseID |-> "", err |-> ErrBackend,
                      via |-> "start"])
  /\ UNCHANGED <<gooseToADK, muWriter, muReaders, requests, nStartOK, lockSnap>>

\* session.go:50-54  StartAgent failed: the wrapped error is the return value
GocStartFail(p) ==
  /\ At(p, "gocStart")
  /\ procs' = Upd(p, [pc |-> "gocFail", gooseID |-> "", err |-> ErrBackend,
                      via |-> "start"])
  /\ UNCHANGED <<adkToGoose, gooseToADK, muWriter, muReaders, requests, nStartOK, lockSnap>>

GocFailReturnKeepsLock(p) ==
  /\ At(p, "gocFail")
  /\ procs' = Upd(p, [pc |-> "gocRet"])
  /\ UNCHANGED <<adkToGoose, gooseToADK, muWriter, muReaders, requests, nStartOK,
                 lockSnap>>

\* session.go:43,54  the deferred Unlock of the failing return
GocFailReturn(p) ==
  /\ At(p, "gocFail")
  /\ muWriter' = NoProc
  /\ lockSnap' = NoSnap
  /\ procs' = Upd(p, [pc |-> "gocRet"])
  /\ UNCHANGED <<adkToGoose, gooseToADK, muReaders, requests, nStartOK>>

\* session.go:50  StartAgent answered with session id g, whatever the backend chose
GocStartOK(p) ==
  /\ At(p, "gocStart")
  /\ \E g \in GooseIds : procs' = Upd(p, [pc |-> "gocPutFwd", gooseID |-> g])
  /\ nStartOK' = [nStartOK EXCEPT ![procs[p].sid] = @ + 1]
  /\ UNCHANGED <<adkToGoose, gooseToADK, muWriter, muReaders, requests, lockSnap>>

\* session.go:57  sm.adkToGoose[adkSessionID] = resp.ID
GocPutFwd(p) ==
  /\ At(p, "gocPutFwd")
  /\ adkToGoose' = MapPut(adkToGoose, procs[p].sid, procs[p].gooseID)
  /\ procs' = Upd(p, [pc |-> "gocPutRev"])
  /\ UNCHANGED <<gooseToADK, muWriter, muReaders, requests, nStartOK, lockSnap>>

\* session.go:58-60  sm.gooseToADK[resp.ID] = adkSessionID; return; deferred Unlock
GocPutRev(p) ==
  /\ At(p, "gocPutRev")
  /\ gooseToADK' = MapPut(gooseToADK, procs[p].gooseID, procs[p].sid)
  /\ procs' = Upd(p, [pc |-> "gocRet", err |-> ErrNil, via |-> "start"])
  /\ muWriter' = NoProc
  /\ lockSnap' = NoSnap
  /\ UNCHANGED <<adkToGoose, muReaders, requests, nStartOK>>

GetOrCreate(p) ==
  \/ GocRLock(p)
  \/ GocFast(p)
  \/ GocLock(p)
  \/ GocCheck(p)
  \/ GocStartFail(p)
  \/ GocFailReturn(p)
  \/ GocStartOK(p)
  \/ GocPutFwd(p)
  \/ GocPutRev(p)

\* ----------------------------------------------------- SessionManager.Stop
StopLockShared(p) ==
  /\ At(p, "stopLock")
  /\ CanRLock
  /\ muReaders' = muReaders \cup {p}
  /\ procs' = Upd(p, [pc |-> "stopCheck"])
  /\ UNCHANGED <<adkToGoose, gooseToADK, muWriter, requests, nStartOK, lockSnap>>

\* session.go:66  sm.mu.Lock()
StopLock(p) ==
  /\ At(p, "stopLock")
  /\ CanLock
  /\ muWriter' = p
  /\ lockSnap' = Tables
  /\ procs' = Upd(p, [pc |-> "stopCheck"])
  /\ UNCHANGED <<adkToGoose, gooseToADK, muReaders, requests, nStartOK>>

StopCheckIgnoresMiss(p) ==
  /\ At(p, "stopCheck")
  /\ procs' = IF procs[p].sid \in DOMAIN adkToGoose
               THEN Upd(p, [pc |-> "stopDelFwd", gooseID |-> adkToGoose[procs[p].sid]])
               ELSE Upd(p, [pc |-> "stopDelFwd", gooseID |-> ""])
  /\ UNCHANGED <<adkToGoose, gooseToADK, muWriter, muReaders, requests, nStartOK, lockSnap>>

\* session.go:67-68  gooseID, ok := sm.adkToGoose[adkSessionID]
StopCheck(p) ==
  /\ At(p, "stopCheck")
  /\ procs' = IF procs[p].sid \in DOMAIN adkToGoose
               THEN Upd(p, [pc |-> "stopDelFwd", gooseID |-> adkToGoose[procs[p].sid]])
               ELSE Upd(p, [pc |-> "stopMiss"])
  /\ UNCHANGED <<adkToGoose, gooseToADK, muWriter, muReaders, requests, nStartOK, lockSnap>>

\* session.go:69-70  sm.mu.Unlock(); return the not-found error
StopMiss(p) ==
  /\ At(p, "stopMiss")
  /\ muWriter' = NoProc
  /\ lockSnap' = NoSnap
  /\ procs' = Upd(p, [pc |-> "stopRet", err |-> ErrNotFound])
  /\ UNCHANGED <<adkToGoose, gooseToADK, muReaders, requests, nStartOK>>

StopDelFwdKeeps(p) ==
  /\ At(p, "stopDelFwd")
  /\ nStartOK' = [nStartOK EXCEPT ![procs[p].sid] = 0]
  /\ procs' = Upd(p, [pc |-> "stopDelRev", had |-> adkToGoose[procs[p].sid]])
  /\ UNCHANGED <<adkToGoose, gooseToADK, muWriter, muReaders, requests, lockSnap>>

\* session.go:72  delete(sm.adkToGoose, adkSessionID); had is the history of
\* the backend id the deleted entry held
StopDelFwd(p) ==
  /\ At(p, "stopDelFwd")
  /\ adkToGoose' = MapDelete(adkToGoose, procs[p].sid)
  /\ nStartOK' = [nStartOK EXCEPT ![procs[p].sid] = 0]
  /\ procs' = [q \in Procs |->
                 IF q = p THEN [procs[q] EXCEPT !.pc = "stopDelRev",
                                                !.had = adkToGoose[procs[p].sid]]
                 ELSE IF /\ procs[q].sid = procs[p].sid
                         /\ procs[q].kind \in {"run", "create"}
                         /\ ~Free(q) /\ procs[q].pc # "createId"
                      THEN [procs[q] EXCEPT !.stale = TRUE]
                      ELSE procs[q]]
  /\ UNCHANGED <<gooseToADK, muWriter, muReaders, requests, lockSnap>>

\* session.go:73  delete(sm.gooseToADK, gooseID)
StopDelRev(p) ==
  /\ At(p, "stopDelRev")
  /\ gooseToADK' = MapDelete(gooseToADK, procs[p].gooseID)
  /\ procs' = Upd(p, [pc |-> "stopUnlock"])
  /\ UNCHANGED <<adkToGoose, muWriter, muReaders, requests, nStartOK, lockSnap>>

\* session.go:74  sm.mu.Unlock()
StopUnlock(p) ==
  /\ At(p, "stopUnlock")
  /\ muWriter' = NoProc
  /\ lockSnap' = NoSnap
  /\ procs' = Upd(p, [pc |-> "stopCall"])
  /\ UNCHANGED <<adkToGoose, gooseToADK, muReaders, requests, nStartOK>>

\* session.go:76  sm.client.StopAgent(ctx, gooseID) is issued
StopCall(p) ==
  /\ At(p, "stopCall")
  /\ procs' = Upd(p, [pc |-> "stopAwait", nStop |-> procs[p].nStop + 1])
  /\ UNCHANGED <<adkToGoose, gooseToADK, muWriter, muReaders, requests, nStartOK, lockSnap>>

StopReturnRestores(p) ==
  /\ At(p, "stopAwait")
  /\ \E e \in {ErrNil, ErrBackend} :
       /\ procs' = Upd(p, [pc |-> "stopRet", err |-> e])
       /\ adkToGoose' = IF e = ErrBackend
                        THEN MapPut(adkToGoose, procs[p].sid, procs[p].gooseID)
                        ELSE adkToGoose
  /\ UNCHANGED <<gooseToADK, muWriter, muReaders, requests, nStartOK, lockSnap>>

\* session.go:76, part_001:83-85  StopAgent returns nil or doJSON's error
StopReturn(p) ==
  /\ At(p, "stopAwait")
  /\ \E e \in {ErrNil, ErrBackend} :
       procs' = Upd(p, [pc |-> "stopRet", err |-> e])
  /\ UNCHANGED <<adkToGoose, gooseToADK, muWriter, muReaders, requests, nStartOK, lockSnap>>

Stop(p) ==
  \/ StopLock(p)
  \/ StopCheck(p)
  \/ StopMiss(p)
  \/ StopDelFwd(p)
  \/ StopDelRev(p)
  \/ StopUnlock(p)
  \/ StopCall(p)
  \/ StopReturn(p)

\* ---------------------------------------- SessionManager.GetGooseSessionID
\* session.go:81  sm.mu.RLock(); defer sm.mu.RUnlock()
LookupRLock(p) ==
  /\ At(p, "lkRLock")
  /\ CanRLock
  /\ muReaders' = muReaders \cup {p}
  /\ procs' = Upd(p, [pc |-> "lkRead"])
  /\ UNCHANGED <<adkToGoose, gooseToADK, muWriter, requests, nStartOK, lockSnap>>

LookupReadRemoves(p) ==
  /\ At(p, "lkRead")
  /\ muReaders' = muReaders \ {p}
  /\ adkToGoose' = MapDelete(adkToGoose, procs[p].sid)
  /\ procs' = IF procs[p].sid \in DOMAIN adkToGoose
               THEN Upd(p, [pc |-> "done", gooseID |-> adkToGoose[procs[p].sid],
                            found |-> TRUE])
               ELSE Upd(p, [pc |-> "done", gooseID |-> "", found |-> FALSE])
  /\ UNCHANGED <<gooseToADK, muWriter, requests, nStartOK, lockSnap>>

\* session.go:83-84  the read, the return and the deferred RUnlock
LookupRead(p) ==
  /\ At(p, "lkRead")
  /\ muReaders' = muReaders \ {p}
  /\ procs' = IF procs[p].sid \in DOMAIN adkToGoose
               THEN Upd(p, [pc |-> "done", gooseID |-> adkToGoose[procs[p].sid],
                            found |-> TRUE])
               ELSE Upd(p, [pc |-> "done", gooseID |-> "", found |-> FALSE])
  /\ UNCHANGED <<adkToGoose, gooseToADK, muWriter, requests, nStartOK, lockSnap>>

Lookup(p) == LookupRLock(p) \/ LookupRead(p)

\* --------------------------------------- SessionManager.ListMappedSessions
\* session.go:89-90  sm.mu.RLock(); defer sm.mu.RUnlock()
ListRLock(p) ==
  /\ At(p, "lsRLock")
  /\ CanRLock
  /\ muReaders' = muReaders \cup {p}
  /\ procs' = Upd(p, [pc |-> "lsCopy"])
  /\ UNCHANGED <<adkToGoose, gooseToADK, muWriter, requests, nStartOK, lockSnap>>

\* A returned map is a Go reference: either a map of its own (own, with its
\* content val) or the registry's forward table itself.
OwnMap(m) == [own |-> TRUE, val |-> m]

SharedMap == [own |-> FALSE, val |-> EmptyMap]

\* What the holder of the map returned to slot p reads in it.
Snapshot(p) ==
  IF procs[p].out.own THEN procs[p].out.val ELSE adkToGoose

ListCopyAliases(p) ==
  /\ At(p, "lsCopy")
  /\ muReaders' = muReaders \ {p}
  /\ procs' = Upd(p, [pc |-> "done", status |-> StatusOK, out |-> SharedMap])
  /\ UNCHANGED <<adkToGoose, gooseToADK, muWriter, requests, nStartOK, lockSnap>>

\* session.go:90-95, handler.go:70-83  out := make(map...); every entry is
\* copied; the deferred RUnlock; the 200 answer
ListCopy(p) ==
  /\ At(p, "lsCopy")
  /\ muReaders' = muReaders \ {p}
  /\ procs' = Upd(p, [pc |-> "done", status |-> StatusOK,
                      out |-> OwnMap([k \in DOMAIN adkToGoose |-> adkToGoose[k]])])
  /\ UNCHANGED <<adkToGoose, gooseToADK, muWriter, requests, nStartOK, lockSnap>>

\* session.go:87,95  the caller owns the returned map and may write to it:
\* here it deletes one entry
ListCallerWrites(p) ==
  /\ At(p, "done")
  /\ procs[p].kind = "list"
  /\ \E k \in DOMAIN Snapshot(p) :
       IF procs[p].out.own
       THEN /\ procs' = Upd(p, [out |-> OwnMap(MapDelete(procs[p].out.val, k))])
            /\ UNCHANGED adkToGoose
       ELSE /\ adkToGoose' = MapDelete(adkToGoose, k)
            /\ UNCHANGED procs
  /\ UNCHANGED <<gooseToADK, muWriter, muReaders, requests, nStartOK, lockSnap>>

ListMappedSessions(p) == ListRLock(p) \/ ListCopy(p) \/ ListCallerWrites(p)

\* ------------------------------------------------- Handler.handleRunSSE
NewMessageNeverMissing(p) == FALSE

\* handler.go:94  req.NewMessage == nil
NewMessageMissing(p) == procs[p].body = "nomsg"

\* handler.go:86-99  the body is decoded and new_message is required: each
\* failure answers 400; otherwise GetOrCreate is called
RunDecode(p) ==
  /\ At(p, "runDecode")
  /\ procs' = IF procs[p].body = "malformed" \/ NewMessageMissing(p)
               THEN Answer(p, StatusBadRequest, ErrNil)
               ELSE Upd(p, [pc |-> "gocRLock"])
  /\ UNCHANGED <<adkToGoose, gooseToADK, muWriter, muReaders, requests, nStartOK, lockSnap>>

\* handler.go:99-107  GetOrCreate's error answers 500; otherwise Reply is issued
RunAfterGetOrCreate(p) ==
  /\ At(p, "gocRet")
  /\ procs[p].kind = "run"
  /\ procs' = IF procs[p].err # ErrNil
               THEN Answer(p, StatusInternalServerError, procs[p].err)
               ELSE Upd(p, [pc |-> "runReply", nReply |-> procs[p].nReply + 1])
  /\ UNCHANGED <<adkToGoose, gooseToADK, muWriter, muReaders, requests, nStartOK, lockSnap>>

RunReplyFailRetries(p) ==
  /\ At(p, "runReply")
  /\ procs' = Upd(p, [nReply |-> procs[p].nReply + 1])
  /\ UNCHANGED <<adkToGoose, gooseToADK, muWriter, muReaders, requests, nStartOK, lockSnap>>

\* handler.go:107-111, part_001:113-122  Reply fails (transport, status # 200): 502
RunReplyFail(p) ==
  /\ At(p, "runReply")
  /\ \E e \in {ErrBackend} :
       procs' = Answer(p, StatusBadGateway, e)
  /\ UNCHANGED <<adkToGoose, gooseToADK, muWriter, muReaders, requests, nStartOK, lockSnap>>

\* handler.go:113-152  Reply returned the channel: the 200 event stream (the
\* loop itself is the turn of SpecTurn)
RunReplyOK(p) ==
  /\ At(p, "runReply")
  /\ procs' = Answer(p, StatusOK, ErrNil)
  /\ UNCHANGED <<adkToGoose, gooseToADK, muWriter, muReaders, requests, nStartOK, lockSnap>>

handleRunSSE(p) ==
  \/ RunDecode(p)
  \/ RunAfterGetOrCreate(p)
  \/ RunReplyFail(p)
  \/ RunReplyOK(p)

\* ---------------------------------------------- Handler.handleCreateSession
\* handler.go:50-55  the id is app_user_<time.Now().UnixNano()>: one id per
\* reading of the wall clock, which can return the same value to two requests
\* and is not monotonic; then GetOrCreate is called
CreateId(p) ==
  /\ At(p, "createId")
  /\ \E id \in ExtIds :
       procs' = Upd(p, [pc |-> "gocRLock", sid |-> id])
  /\ UNCHANGED <<adkToGoose, gooseToADK, muWriter, muReaders, requests, nStartOK, lockSnap>>

\* handler.go:55-67  GetOrCreate's error answers 500, nil answers 200 with the id
CreateRespond(p) ==
  /\ At(p, "gocRet")
  /\ procs[p].kind = "create"
  /\ procs' = IF procs[p].err # ErrNil
               THEN Answer(p, StatusInternalServerError, procs[p].err)
               ELSE Answer(p, StatusOK, ErrNil)
  /\ UNCHANGED <<adkToGoose, gooseToADK, muWriter, muReaders, requests, nStartOK, lockSnap>>

handleCreateSession(p) == CreateId(p) \/ CreateRespond(p)

\* ---------------------------------------------- Handler.handleDeleteSession
\* handler.go:158-163  any error of Stop answers 500, nil answers 200
DeleteRespond(p) ==
  /\ At(p, "stopRet")
  /\ procs' = IF procs[p].err # ErrNil
               THEN Answer(p, StatusInternalServerError, procs[p].err)
               ELSE Answer(p, StatusOK, ErrNil)
  /\ UNCHANGED <<adkToGoose, gooseToADK, muWriter, muReaders, requests, nStartOK, lockSnap>>

\* ============================================================ the translator
\* A Go pointer is a sequence of length 0 (nil) or 1.
NilPtr == <<>>

Ptr(x) == <<x>>

\* gooseclient.ToolCall (part_000:48-51); a Go map is NilPtr (nil) or Ptr(m)
\* with m a function from keys to values
ToolCall(name, arguments) == [name |-> name, arguments |-> arguments]

\* gooseclient.ToolResult (part_000:54-58)
ToolResult(content, structuredContent) ==
  [content |-> content, isError |-> FALSE,
   structuredContent |-> structuredContent]

\* gooseclient.MessageContent (part_000:19-45), the fields the translator
\* reads or writes
MessageContent(type, text, thinking, id, toolCall, toolResult, data, mimeType) ==
  [type |-> type, text |-> text, thinking |-> thinking, id |-> id,
   toolCall |-> toolCall, toolResult |-> toolResult, data |-> data,
   mimeType |-> mimeType]

MC(type, text, thinking, toolCall) ==
  MessageContent(type, text, thinking, "call-1", toolCall, NilPtr, "", "")

\* gooseclient.SSEEvent (part_000:61-69)
SSEEvent(type, message, error, tokenState) ==
  [type |-> type, message |-> message, error |-> error,
   tokenState |-> tokenState]

\* encoding/json on a map[string]any (tools.go:195, 240): null for the nil
\* map, {} for the empty one, {"k":"v"} for one string entry; the maps of this
\* model have at most one entry
Marshal(m) ==
  IF m = NilPtr THEN "null"
  ELSE IF DOMAIN m[1] = {} THEN "{}"
  ELSE LET k == CHOOSE key \in DOMAIN m[1] : TRUE
       IN "{\"" \o k \o "\":\"" \o m[1][k] \o "\"}"

\* tools.go:189-193  the first sub-part of type text with non-empty text,
\* "" when there is none
RECURSIVE FirstText(_)
FirstText(content) ==
  IF content = <<>> THEN ""
  ELSE IF Head(content).type = "text" /\ Head(content).text # ""
       THEN Head(content).text
       ELSE FirstText(Tail(content))

extractToolResultTextTextTypedFirst(tr) ==
  IF tr = NilPtr THEN ""
  ELSE LET texts == SelectSeq(tr[1].content, LAMBDA c : c.type = "text")
       IN IF texts # <<>> THEN texts[1].text
          ELSE IF tr[1].structuredContent # NilPtr
               THEN Marshal(tr[1].structuredContent)
               ELSE ""

\* tools.go:185-201
extractToolResultText(tr) ==
  IF tr = NilPtr THEN ""
  ELSE IF FirstText(tr[1].content) # "" THEN FirstText(tr[1].content)
  ELSE IF tr[1].structuredContent # NilPtr
       THEN Marshal(tr[1].structuredContent)
       ELSE ""

\* tools.go:136-169  the content types the switch has a case for
ConvertsPart(mc) ==
  mc.type \in {"text", "toolRequest", "toolResponse", "thinking", "reasoning"}

\* tools.go:144  mc.ToolCall.Name with mc.ToolCall == nil
PartPanics(mc) == mc.type = "toolRequest" /\ mc.toolCall = NilPtr

\* genai.FunctionCall and genai.FunctionResponse as tools.go:142-146 and
\* 153-157 fill them
FunctionCall(id, name, args) == [id |-> id, name |-> name, args |-> args]

FunctionResponse(id, name, response) ==
  [id |-> id, name |-> name, response |-> response]

\* genai.Part, the fields the translator reads or writes (tools.go:138-166,
\* 224-259)
GenaiPart(text, thought, functionCall, functionResponse, inlineData) ==
  [text |-> text, thought |-> thought, functionCall |-> functionCall,
   functionResponse |-> functionResponse, inlineData |-> inlineData]

\* tools.go:136-169  one genai.Part per converted content part
PartOf(mc) ==
  CASE mc.type = "text" ->
         GenaiPart(mc.text, FALSE, NilPtr, NilPtr, NilPtr)
    [] mc.type = "toolRequest" ->
         GenaiPart("", FALSE,
                   Ptr(FunctionCall(mc.id, mc.toolCall[1].name,
                                    mc.toolCall[1].arguments)),
                   NilPtr, NilPtr)
    [] mc.type = "toolResponse" ->
         GenaiPart("", FALSE, NilPtr,
                   Ptr(FunctionResponse(mc.id, "",
                         Ptr([result |-> extractToolResultText(mc.toolResult)]))),
                   NilPtr)
    [] mc.type \in {"thinking", "reasoning"} ->
         GenaiPart(IF mc.thinking = "" THEN mc.text ELSE mc.thinking, TRUE,
                   NilPtr, NilPtr, NilPtr)

\* tools.go:128-173
GooseMessageToADKContent(msg) ==
  LET kept == SelectSeq(msg.content, ConvertsPart)
  IN [role |-> IF msg.role = "assistant" THEN "model" ELSE msg.role,
      parts |-> [i \in 1..Len(kept) |-> PartOf(kept[i])]]

GooseTokenStateToUsageMetadataSwapped(ts) ==
  [promptTokenCount |-> ts.outputTokens,
   candidatesTokenCount |-> ts.inputTokens,
   totalTokenCount |-> ts.totalTokens]

\* tools.go:176-182
GooseTokenStateToUsageMetadata(ts) ==
  [promptTokenCount |-> ts.inputTokens,
   candidatesTokenCount |-> ts.outputTokens,
   totalTokenCount |-> ts.totalTokens]

\* tools.go:62-76  ADKEvent; the generated id and time are left out
ADKEvent(inv, content, turnComplete, errorCode, errorMessage, usage) ==
  [invocationId |-> inv, author |-> "goose", content |-> content,
   turnComplete |-> turnComplete, errorCode |-> errorCode,
   errorMessage |-> errorMessage, usageMetadata |-> usage]

\* tools.go:87,129,144  the translation dereferences a nil pointer: a Message
\* event without message, or a toolRequest part without toolCall
TranslationPanics(sse) ==
  /\ sse.type = "Message"
  /\ IF sse.message = NilPtr THEN TRUE
     ELSE \E i \in 1..Len(sse.message[1].content) :
            PartPanics(sse.message[1].content[i])

GooseSSEEventToADKEventPingFrame(sse, inv) ==
  IF sse.type = "Message"
  THEN Ptr(ADKEvent(inv, Ptr(GooseMessageToADKContent(sse.message[1])),
                    FALSE, "", "", NilPtr))
  ELSE Ptr(ADKEvent(inv, NilPtr, sse.type = "Finish", "", "", NilPtr))

GooseSSEEventToADKEventErrorCompletes(sse, inv) ==
  CASE sse.type = "Message" ->
         Ptr(ADKEvent(inv, Ptr(GooseMessageToADKContent(sse.message[1])),
                      FALSE, "", "", NilPtr))
    [] sse.type = "Finish" ->
         Ptr(ADKEvent(inv, NilPtr, TRUE, "", "",
                      IF sse.tokenState # NilPtr
                      THEN Ptr(GooseTokenStateToUsageMetadata(sse.tokenState[1]))
                      ELSE NilPtr))
    [] sse.type = "Error" ->
         Ptr(ADKEvent(inv, NilPtr, TRUE, "GOOSE_ERROR", sse.error, NilPtr))
    [] OTHER -> NilPtr

\* tools.go:84-125  nil (NilPtr) for Ping and for every other type; the
\* returned error is always nil
GooseSSEEventToADKEvent(sse, inv) ==
  CASE sse.type = "Message" ->
         Ptr(ADKEvent(inv, Ptr(GooseMessageToADKContent(sse.message[1])),
                      FALSE, "", "", NilPtr))
    [] sse.type = "Finish" ->
         Ptr(ADKEvent(inv, NilPtr, TRUE, "", "",
                      IF sse.tokenState # NilPtr
                      THEN Ptr(GooseTokenStateToUsageMetadata(sse.tokenState[1]))
                      ELSE NilPtr))
    [] sse.type = "Error" ->
         Ptr(ADKEvent(inv, NilPtr, FALSE, "GOOSE_ERROR", sse.error, NilPtr))
    [] sse.type = "Ping" -> NilPtr
    [] OTHER -> NilPtr

StampedMarksLateEvents(evt, now) ==
  IF evt = NilPtr THEN NilPtr
  ELSE Ptr([id |-> now, time |-> now \div 2] @@
           [evt[1] EXCEPT !.turnComplete = @ \/ now > 0])

\* tools.go:89-90, 98-99, 111-112  the id and the time every returned event
\* takes from the wall clock (nanoseconds in the id, seconds in the time: two
\* ticks of the model's clock make one second)
Stamped(evt, now) ==
  IF evt = NilPtr THEN NilPtr
  ELSE Ptr([id |-> now, time |-> now \div 2] @@ evt[1])

\* encoding/base64 StdEncoding (tools.go:255) on the byte strings of this model
Base64(data) ==
  CASE data = "" -> ""
    [] data = "hi" -> "aGk="

\* tools.go:223-259  the backend parts one inbound part becomes: one per field
\* that is set, in the order text, function call, function response, inline
\* data
GooseParts(part) ==
  (IF part.text # ""
   THEN <<MessageContent("text", part.text, "", "", NilPtr, NilPtr, "", "")>>
   ELSE <<>>)
  \o (IF part.functionCall # NilPtr
      THEN <<MessageContent("toolRequest", "", "", part.functionCall[1].id,
                            Ptr(ToolCall(part.functionCall[1].name,
                                         part.functionCall[1].args)),
                            NilPtr, "", "")>>
      ELSE <<>>)
  \o (IF part.functionResponse # NilPtr
      THEN <<MessageContent("toolResponse", "", "",
                            part.functionResponse[1].id, NilPtr,
                            Ptr(ToolResult(
                                  <<MessageContent("text",
                                      Marshal(part.functionResponse[1].response),
                                      "", "", NilPtr, NilPtr, "", "")>>,
                                  NilPtr)),
                            "", "")>>
      ELSE <<>>)
  \o (IF part.inlineData # NilPtr
      THEN <<MessageContent("image", "", "", "", NilPtr, NilPtr,
                            Base64(part.inlineData[1].data),
                            part.inlineData[1].mimeType)>>
      ELSE <<>>)

RECURSIVE AllGooseParts(_)
AllGooseParts(parts) ==
  IF parts = <<>> THEN <<>>
  ELSE GooseParts(Head(parts)) \o AllGooseParts(Tail(parts))

ADKContentToGooseMessageAlwaysUser(content, now) ==
  [role |-> "user", created |-> now \div 2,
   content |-> AllGooseParts(content.parts),
   metadata |-> Ptr([userVisible |-> TRUE, agentVisible |-> TRUE])]

\* tools.go:215-270
ADKContentToGooseMessage(content, now) ==
  [role |-> IF content.role = "model" THEN "assistant" ELSE "user",
   created |-> now \div 2,
   content |-> AllGooseParts(content.parts),
   metadata |-> Ptr([userVisible |-> TRUE, agentVisible |-> TRUE])]

\* ------------------------------------------------- the backend's reply body
Tokens == [inputTokens |-> 10, outputTokens |-> 5, totalTokens |-> 15]

TextMessage ==
  [role |-> "assistant", content |-> <<MC("text", "Hello from Goose!", "", NilPtr)>>]

ToolMessage ==
  [role |-> "assistant", content |-> <<MC("toolRequest", "", "", NilPtr)>>]

EvMessage == SSEEvent("Message", Ptr(TextMessage), "", NilPtr)

EvMessageNoPayload == SSEEvent("Message", NilPtr, "", NilPtr)

EvToolNoCall == SSEEvent("Message", Ptr(ToolMessage), "", NilPtr)

EvFinish == SSEEvent("Finish", NilPtr, "", Ptr(Tokens))

EvError == SSEEvent("Error", NilPtr, "boom", NilPtr)

EvPing == SSEEvent("Ping", NilPtr, "", NilPtr)

EvUnknown == SSEEvent("Notification", NilPtr, "", NilPtr)

Events == {EvMessage, EvMessageNoPayload, EvToolNoCall, EvFinish, EvError,
           EvPing, EvUnknown}

\* A body line: whether it is empty, its prefix, what json.Unmarshal makes of
\* its payload (NilPtr: the payload does not decode), and whether it is longer
\* than the scanner's buffer allows.
Line(empty, prefix, json) ==
  [empty |-> empty, prefix |-> prefix, json |-> json, long |-> FALSE]

\* part_001:128  bufio.NewScanner(resp.Body) keeps the default buffer: a line
\* of more than bufio.MaxScanTokenSize (64 KiB) bytes cannot be returned
LongLine(prefix, json) ==
  [empty |-> FALSE, prefix |-> prefix, json |-> json, long |-> TRUE]

Lines ==
  {Line(TRUE, "", NilPtr), Line(FALSE, ":", NilPtr),
   Line(FALSE, "event: ", NilPtr), Line(FALSE, "data: ", NilPtr)}
  \cup {Line(FALSE, "data: ", Ptr(e)) : e \in Events}
  \cup {LongLine(":", NilPtr), LongLine("data: ", Ptr(EvMessage))}

\* handler.go:123  one invocation id per turn (generated from the clock)
InvocationID == "inv_1"

InvocationIDs == {"inv_1", "inv_2"}

\* ================================================ the translator, applied
\* SpecTranslate applies the translator's functions to one input drawn from
\* the catalogues below.

SeqsUpTo(S, n) == UNION {[1..k -> S] : k \in 0..n}

\* map[string]any values: nil, empty, one entry
GoMaps == {NilPtr, Ptr([k \in {} |-> ""]), Ptr([ok |-> "yes"])}

SubParts ==
  {MessageContent("text", "", "", "", NilPtr, NilPtr, "", ""),
   MessageContent("text", "done", "", "", NilPtr, NilPtr, "", ""),
   MessageContent("image", "", "", "", NilPtr, NilPtr, "aGk=", "image/png")}

\* the tool results extractToolResultText is applied to, and nil
ToolResults ==
  {NilPtr} \cup
  {Ptr(ToolResult(c, s)) : c \in SeqsUpTo(SubParts, MaxSubParts), s \in GoMaps}

GoodToolCall == Ptr(ToolCall("read_file", Ptr([path |-> "/tmp"])))

\* the content parts of backend messages
BackendParts ==
  {MessageContent("text", "Hello from Goose!", "", "", NilPtr, NilPtr, "", ""),
   MessageContent("text", "", "", "", NilPtr, NilPtr, "", ""),
   MessageContent("toolRequest", "", "", "call-1", GoodToolCall, NilPtr, "", ""),
   MessageContent("toolRequest", "", "", "call-2", NilPtr, NilPtr, "", ""),
   MessageContent("toolResponse", "", "", "call-1", NilPtr,
                  Ptr(ToolResult(<<MessageContent("text", "done", "", "",
                                     NilPtr, NilPtr, "", "")>>, NilPtr)),
                  "", ""),
   MessageContent("toolResponse", "", "", "call-1", NilPtr, NilPtr, "", ""),
   MessageContent("thinking", "", "hmm", "", NilPtr, NilPtr, "", ""),
   MessageContent("reasoning", "because", "", "", NilPtr, NilPtr, "", ""),
   MessageContent("image", "", "", "", NilPtr, NilPtr, "aGk=", "image/png")}

BackendMessages ==
  {[role |-> r, content |-> c] :
     r \in {"assistant", "user"}, c \in SeqsUpTo(BackendParts, MaxParts)}

TokenStates ==
  {NilPtr, Ptr(Tokens),
   Ptr([inputTokens |-> 0, outputTokens |-> 0, totalTokens |-> 0])}

\* the events GooseSSEEventToADKEvent is applied to
TranslatorEvents ==
  {SSEEvent("Message", m, "", NilPtr) :
     m \in {NilPtr} \cup {Ptr(b) : b \in BackendMessages}}
  \cup {SSEEvent("Finish", NilPtr, "", ts) : ts \in TokenStates}
  \cup {SSEEvent("Error", NilPtr, e, NilPtr) : e \in {"", "boom"}}
  \cup {EvPing, EvUnknown}

\* the parts of inbound contents (genai.Part)
InboundParts ==
  {GenaiPart("hi", FALSE, NilPtr, NilPtr, NilPtr),
   GenaiPart("pondering", TRUE, NilPtr, NilPtr, NilPtr),
   GenaiPart("", FALSE, NilPtr, NilPtr, NilPtr),
   GenaiPart("", FALSE,
             Ptr(FunctionCall("fc-1", "read_file", Ptr([path |-> "/tmp"]))),
             NilPtr, NilPtr),
   GenaiPart("", FALSE, Ptr(FunctionCall("fc-2", "list", NilPtr)), NilPtr,
             NilPtr),
   GenaiPart("hi", FALSE, Ptr(FunctionCall("fc-3", "list", NilPtr)), NilPtr,
             NilPtr),
   GenaiPart("", FALSE, NilPtr,
             Ptr(FunctionResponse("fc-1", "read_file", Ptr([ok |-> "yes"]))),
             NilPtr),
   GenaiPart("", FALSE, NilPtr, NilPtr,
             Ptr([data |-> "hi", mimeType |-> "image/png"]))}

\* the contents ADKContentToGooseMessage is applied to
InboundContents ==
  {[role |-> r, parts |-> ps] :
     r \in {"user", "model", "system"}, ps \in SeqsUpTo(InboundParts, MaxParts)}

\* The input of one application: an event and its invocation id, a tool
\* result, or an inbound content.
Input(kind, event, inv, toolResult, content) ==
  [kind |-> kind, event |-> event, inv |-> inv, toolResult |-> toolResult,
   content |-> content]

NoInput == Input("none", NilPtr, "", NilPtr, NilPtr)

Inputs ==
  {Input("event", Ptr(e), i, NilPtr, NilPtr) :
     e \in TranslatorEvents, i \in InvocationIDs}
  \cup {Input("toolResult", NilPtr, "", tr, NilPtr) : tr \in ToolResults}
  \cup {Input("content", NilPtr, "", NilPtr, Ptr(c)) : c \in InboundContents}

\* Outside SpecTranslate there is no input.
InitTranslateIdle ==
  /\ tin = NoInput
  /\ touts = <<>>
  /\ xout = NilPtr
  /\ cmsg = NilPtr
  /\ cback = NilPtr
  /\ tclock = 0

\* The input is drawn from the catalogues; the clock shows any time.
InitInputs ==
  /\ tin \in Inputs
  /\ touts = <<>>
  /\ xout = NilPtr
  /\ cmsg = NilPtr
  /\ cback = NilPtr
  /\ tclock \in 0..MaxClock

\* One result of GooseSSEEventToADKEvent: the call panicked, or returned evt.
Outcome(panicked, evt) == [panicked |-> panicked, evt |-> evt]

\* tools.go:84-125  one call of GooseSSEEventToADKEvent on the input; the
\* same input is translated up to MaxRepeats times
Translate ==
  /\ tin.kind = "event"
  /\ Len(touts) < MaxRepeats
  /\ ~TranslationPanics(tin.event[1])
  /\ touts' = Append(touts,
                Outcome(FALSE,
                        Stamped(GooseSSEEventToADKEvent(tin.event[1], tin.inv),
                                tclock)))
  /\ UNCHANGED <<tin, xout, cmsg, cback, tclock>>

\* tools.go:87,129,144  the call dereferences nil
TranslateAborts ==
  /\ tin.kind = "event"
  /\ Len(touts) < MaxRepeats
  /\ TranslationPanics(tin.event[1])
  /\ touts' = Append(touts, Outcome(TRUE, NilPtr))
  /\ UNCHANGED <<tin, xout, cmsg, cback, tclock>>

\* Time passes and other events are translated in between: the translator
\* keeps no state, so all that changes is the clock.
Elsewhere ==
  /\ tclock < MaxClock
  /\ tclock' = tclock + 1
  /\ UNCHANGED <<tin, touts, xout, cmsg, cback>>

\* tools.go:185-201  one call of extractToolResultText
Extract ==
  /\ tin.kind = "toolResult"
  /\ xout = NilPtr
  /\ xout' = Ptr(extractToolResultText(tin.toolResult))
  /\ UNCHANGED <<tin, touts, cmsg, cback, tclock>>

\* tools.go:215-270  the inbound content becomes the backend's user message
ToBackend ==
  /\ tin.kind = "content"
  /\ cmsg = NilPtr
  /\ cmsg' = Ptr(ADKContentToGooseMessage(tin.content[1], tclock))
  /\ UNCHANGED <<tin, touts, xout, cback, tclock>>

\* tools.go:128-173  that message translated back
BackToADK ==
  /\ cmsg # NilPtr
  /\ cback = NilPtr
  /\ cback' = Ptr(GooseMessageToADKContent(cmsg[1]))
  /\ UNCHANGED <<tin, touts, xout, cmsg, tclock>>

NextTranslate ==
  /\ \/ Translate
     \/ TranslateAborts
     \/ Elsewhere
     \/ Extract
     \/ ToBackend
     \/ BackToADK
  /\ UNCHANGED <<regVars, turnVars, replyVars>>

\* ====================================================== Client.Reply
\* The statuses a backend answers with, and whether the answer carries a
\* Location header.
BackendStatuses == {200, 201, 204, 302, 304, 307, 404, 500}

Response(status, location) == [status |-> status, location |-> location]

NoResponse == Response(0, FALSE)

\* net/http: the statuses Client.Do follows when the answer has a Location
RedirectStatuses == {301, 302, 303, 307, 308}

\* part_001:26,113  c.HTTP is http.Client{}: no CheckRedirect, so Do follows
\* a redirect that carries a Location
Followed(r) == r.status \in RedirectStatuses /\ r.location

InitReply ==
  /\ rpc = "do"
  /\ resp = NoResponse
  /\ answered = 0
  /\ hops = 0
  /\ bodyOpen = FALSE
  /\ chMade = FALSE
  /\ producerUp = FALSE

\* part_001:113  the backend answers the request Do has sent: the POST /reply
\* or the request to the Location of the last redirect
ReplyAnswer ==
  /\ rpc = "do"
  /\ resp = NoResponse \/ Followed(resp)
  /\ \E st \in BackendStatuses, loc \in BOOLEAN :
       /\ (st \in RedirectStatuses /\ loc) => hops < MaxHops
       /\ resp' = Response(st, loc)
       /\ answered' = IF resp = NoResponse THEN st ELSE answered
       /\ hops' = IF resp = NoResponse THEN 0 ELSE hops + 1
  /\ UNCHANGED <<rpc, bodyOpen, chMade, producerUp>>

\* part_001:113-116  Do fails (no connection, the context is cancelled):
\* "execute request"
ReplyTransportError ==
  /\ rpc = "do"
  /\ resp = NoResponse \/ Followed(resp)
  /\ rpc' = "failed"
  /\ resp' = NoResponse
  /\ UNCHANGED <<answered, hops, bodyOpen, chMade, producerUp>>

\* part_001:113  Do returns the first response it does not follow
ReplyDoReturns ==
  /\ rpc = "do"
  /\ resp # NoResponse /\ ~Followed(resp)
  /\ rpc' = "check"
  /\ bodyOpen' = TRUE
  /\ UNCHANGED <<resp, answered, hops, chMade, producerUp>>

\* part_001:118-122  resp.StatusCode != http.StatusOK: the body is read and
\* closed, "unexpected status"
ReplyBadStatus ==
  /\ rpc = "check"
  /\ resp.status # StatusOK
  /\ bodyOpen' = FALSE
  /\ rpc' = "failed"
  /\ UNCHANGED <<resp, answered, hops, chMade, producerUp>>

\* part_001:124-152  the channel is made, the producer goroutine started, the
\* channel returned
ReplySource ==
  /\ rpc = "check"
  /\ resp.status = StatusOK
  /\ chMade' = TRUE
  /\ producerUp' = TRUE
  /\ rpc' = "source"
  /\ UNCHANGED <<resp, answered, hops, bodyOpen>>

NextReply ==
  /\ \/ ReplyAnswer
     \/ ReplyTransportError
     \/ ReplyDoReturns
     \/ ReplyBadStatus
     \/ ReplySource
  /\ UNCHANGED <<regVars, turnVars, transVars>>

\* ===================================================== one streaming turn
Streaming == pcB \in {"select", "translate", "write"}

CtxDone == ctxDone # "no"

\* handler.go:127  the loop's select has a case for r.Context().Done()
BridgeWatchesDoneNever == FALSE

BridgeWatchesDone == TRUE

ProducerWatchesDoneNever == FALSE

\* part_001:145  the producer's select has a case for ctx.Done()
ProducerWatchesDone == TRUE

\* The unbuffered channel hands an event over only when sender and receiver
\* are both at their select.  Closing Done wakes a goroutine blocked in a
\* select with the Done case, and a goroutine that reaches its select later
\* finds no partner waiting and Done ready: when both sides watch Done, no
\* event is handed over once the context is cancelled.
CanRendezvous == ~CtxDone \/ ~(BridgeWatchesDone /\ ProducerWatchesDone)

InitTurn ==
  /\ pcP = "scan"
  /\ pcB = "select"
  /\ ctxDone = "no"
  /\ nRead = 0
  /\ pending = NilPtr
  /\ got = NilPtr
  /\ out = NilPtr
  /\ frames = <<>>
  /\ decoded = <<>>
  /\ nRecv = 0
  /\ cancelSnap = <<>>
  /\ nClose = 0
  /\ lines = <<>>

\* The state after construction: an empty registry, and a turn whose Reply has
\* just returned its channel.
Init == InitRegistry /\ InitTurn /\ InitReply /\ InitTranslateIdle

\* ---------------------------------------- Client.Reply: the producer goroutine
\* part_001:133  line == "" || strings.HasPrefix(line, ":")
Skipped(line) == line.empty \/ line.prefix = ":"

\* part_001:137  strings.HasPrefix(line, "data: ")
IsData(line) == line.prefix = "data: "

\* part_001:130-135  a blank or comment line: continue
ProdSkipLine ==
  /\ pcP = "scan"
  /\ nRead < MaxLines
  /\ \E line \in Lines :
       /\ ~line.long /\ Skipped(line)
       /\ lines' = Append(lines, line)
  /\ nRead' = nRead + 1
  /\ UNCHANGED <<pcP, pcB, ctxDone, pending, got, out, frames, decoded, nRecv,
                 cancelSnap, nClose>>

\* part_001:137-142  a line with another prefix, or a data line whose payload
\* does not decode: nothing is sent, the loop goes on
ProdDropLine ==
  /\ pcP = "scan"
  /\ nRead < MaxLines
  /\ \E line \in Lines :
       /\ ~line.long /\ ~Skipped(line)
       /\ ~IsData(line) \/ line.json = NilPtr
       /\ lines' = Append(lines, line)
  /\ nRead' = nRead + 1
  /\ UNCHANGED <<pcP, pcB, ctxDone, pending, got, out, frames, decoded, nRecv,
                 cancelSnap, nClose>>

ProdDecodeBuffered ==
  /\ pcP = "scan"
  /\ nRead < MaxLines
  /\ \E line \in Lines :
       /\ ~line.long /\ ~Skipped(line) /\ IsData(line) /\ line.json # NilPtr
       /\ lines' = Append(lines, line)
       /\ pending' = line.json
       /\ decoded' = Append(decoded, line.json[1])
  /\ nRead' = nRead + 1
  /\ pcP' = "scan"
  /\ UNCHANGED <<pcB, ctxDone, got, out, frames, nRecv, cancelSnap, nClose>>

\* part_001:137-143  a data line that decodes: the producer enters its select
ProdDecode ==
  /\ pcP = "scan"
  /\ nRead < MaxLines
  /\ \E line \in Lines :
       /\ ~line.long /\ ~Skipped(line) /\ IsData(line) /\ line.json # NilPtr
       /\ lines' = Append(lines, line)
       /\ pending' = line.json
       /\ decoded' = Append(decoded, line.json[1])
  /\ nRead' = nRead + 1
  /\ pcP' = "send"
  /\ UNCHANGED <<pcB, ctxDone, got, out, frames, nRecv, cancelSnap, nClose>>

\* part_001:126-130  the next line is longer than the scanner's buffer:
\* scanner.Scan() returns false (bufio.ErrTooLong, which nothing reads), the
\* loop ends and the deferred close(ch) runs
ProdTooLong ==
  /\ pcP = "scan"
  /\ nRead < MaxLines
  /\ \E line \in Lines :
       /\ line.long
       /\ lines' = Append(lines, line)
  /\ nRead' = nRead + 1
  /\ pcP' = "closed"
  /\ nClose' = nClose + 1
  /\ UNCHANGED <<pcB, ctxDone, pending, got, out, frames, decoded, nRecv,
                 cancelSnap>>

\* part_001:126-130  scanner.Scan() returns false (end of body, read error,
\* body closed by the cancelled request): deferred Body.Close and close(ch);
\* pcP = "closed" is the goroutine having exited
ProdEnd ==
  /\ pcP = "scan"
  /\ pcP' = "closed"
  /\ nClose' = nClose + 1
  /\ UNCHANGED <<pcB, ctxDone, nRead, pending, got, out, frames, decoded, nRecv,
                 cancelSnap, lines>>

\* part_001:144 / handler.go:129  ch <- event meets sse, ok := <-eventCh
Handoff ==
  /\ pcP = "send"
  /\ pcB = "select"
  /\ CanRendezvous
  /\ got' = pending
  /\ pending' = NilPtr
  /\ nRecv' = nRecv + 1
  /\ pcP' = "scan"
  /\ pcB' = "translate"
  /\ UNCHANGED <<ctxDone, nRead, out, frames, decoded, cancelSnap, nClose, lines>>

ProdAbandonKeepsReading ==
  /\ pcP = "send"
  /\ CtxDone
  /\ ProducerWatchesDone
  /\ pending' = NilPtr
  /\ pcP' = "scan"
  /\ UNCHANGED <<pcB, ctxDone, nRead, got, out, frames, decoded, nRecv,
                 cancelSnap, nClose, lines>>

ProdAbandonWithoutClose ==
  /\ pcP = "send"
  /\ CtxDone
  /\ ProducerWatchesDone
  /\ pending' = NilPtr
  /\ pcP' = "closed"
  /\ UNCHANGED <<pcB, ctxDone, nRead, got, out, frames, decoded, nRecv,
                 cancelSnap, nClose, lines>>

\* part_001:145-146, 126  case <-ctx.Done(): return, and the deferred close(ch)
ProdAbandon ==
  /\ pcP = "send"
  /\ CtxDone
  /\ ProducerWatchesDone
  /\ pending' = NilPtr
  /\ pcP' = "closed"
  /\ nClose' = nClose + 1
  /\ UNCHANGED <<pcB, ctxDone, nRead, got, out, frames, decoded, nRecv,
                 cancelSnap, lines>>

Producer ==
  \/ ProdSkipLine
  \/ ProdDropLine
  \/ ProdDecode
  \/ ProdTooLong
  \/ ProdEnd
  \/ ProdAbandon

\* --------------------------------------------- handleRunSSE: the stream loop
\* handler.go:127-128  case <-r.Context().Done(): return
BridgeCancelled ==
  /\ pcB = "select"
  /\ CtxDone
  /\ BridgeWatchesDone
  /\ pcB' = "cancelled"
  /\ UNCHANGED <<pcP, ctxDone, nRead, pending, got, out, frames, decoded,
                 nRecv, cancelSnap, nClose, lines>>

BridgeEndedWritesTurnComplete ==
  /\ pcB = "select"
  /\ nClose > 0
  /\ pcB' = "ended"
  /\ frames' = Append(frames, ADKEvent(InvocationID, NilPtr, TRUE, "", "", NilPtr))
  /\ UNCHANGED <<pcP, ctxDone, nRead, pending, got, out, decoded, nRecv,
                 cancelSnap, nClose, lines>>

\* handler.go:129-132  the channel is closed: return
BridgeEnded ==
  /\ pcB = "select"
  /\ nClose > 0
  /\ pcB' = "ended"
  /\ UNCHANGED <<pcP, ctxDone, nRead, pending, got, out, frames, decoded,
                 nRecv, cancelSnap, nClose, lines>>

\* handler.go:134  the translator dereferences nil: the handler goroutine
\* panics and net/http aborts the response
BridgePanic ==
  /\ pcB = "translate"
  /\ TranslationPanics(got[1])
  /\ got' = NilPtr
  /\ pcB' = "panicked"
  /\ UNCHANGED <<pcP, ctxDone, nRead, pending, out, frames, decoded, nRecv,
                 cancelSnap, nClose, lines>>

\* handler.go:134-141  the translation is nil: continue
BridgeNothing ==
  /\ pcB = "translate"
  /\ ~TranslationPanics(got[1])
  /\ GooseSSEEventToADKEvent(got[1], InvocationID) = NilPtr
  /\ got' = NilPtr
  /\ pcB' = "select"
  /\ UNCHANGED <<pcP, ctxDone, nRead, pending, out, frames, decoded, nRecv,
                 cancelSnap, nClose, lines>>

\* handler.go:134-147  the translation is an event; json.Marshal cannot fail
\* on a value decoded from JSON
BridgeTranslate ==
  /\ pcB = "translate"
  /\ ~TranslationPanics(got[1])
  /\ GooseSSEEventToADKEvent(got[1], InvocationID) # NilPtr
  /\ out' = GooseSSEEventToADKEvent(got[1], InvocationID)
  /\ pcB' = "write"
  /\ UNCHANGED <<pcP, ctxDone, nRead, pending, got, frames, decoded, nRecv,
                 cancelSnap, nClose, lines>>

BridgeWriteTwice ==
  /\ pcB = "write"
  /\ frames' = frames \o <<out[1], out[1]>>
  /\ out' = NilPtr
  /\ got' = NilPtr
  /\ pcB' = "select"
  /\ UNCHANGED <<pcP, ctxDone, nRead, pending, decoded, nRecv, cancelSnap, nClose, lines>>

\* handler.go:149-150  fmt.Fprintf(w, "data: %s\n\n", jsonBytes); Flush
BridgeWrite ==
  /\ pcB = "write"
  /\ frames' = Append(frames, out[1])
  /\ out' = NilPtr
  /\ got' = NilPtr
  /\ pcB' = "select"
  /\ UNCHANGED <<pcP, ctxDone, nRead, pending, decoded, nRecv, cancelSnap, nClose, lines>>

Bridge ==
  \/ BridgeCancelled
  \/ BridgeEnded
  \/ BridgePanic
  \/ BridgeNothing
  \/ BridgeTranslate
  \/ BridgeWrite

\* ------------------------------------------------------ the request context
\* The caller disconnects or cancels while the turn is streaming.
Cancel ==
  /\ Streaming
  /\ ctxDone = "no"
  /\ ctxDone' = "caller"
  /\ cancelSnap' = <<[frames |-> Len(frames), got |-> got, nRecv |-> nRecv]>>
  /\ UNCHANGED <<pcP, pcB, nRead, pending, got, out, frames, decoded, nRecv, nClose, lines>>

\* net/http cancels the request's context when the handler has returned or
\* panicked.
ServeCancel ==
  /\ ~Streaming
  /\ ctxDone = "no"
  /\ ctxDone' = "server"
  /\ UNCHANGED <<pcP, pcB, nRead, pending, got, out, frames, decoded, nRecv,
                 cancelSnap, nClose, lines>>

NextTurn ==
  /\ Producer \/ Handoff \/ Bridge \/ Cancel \/ ServeCancel
  /\ UNCHANGED <<regVars, replyVars, transVars>>

SpecTurn == Init /\ [][NextTurn]_vars

SpecReply == Init /\ [][NextReply]_vars

InitTranslate == InitRegistry /\ InitTurn /\ InitReply /\ InitInputs

SpecTranslate == InitTranslate /\ [][NextTranslate]_vars

\* Scheduling: the handler goroutine keeps running.  The producer goroutine
\* is only known to move once the context is cancelled: until then its read
\* waits for the backend, afterwards the transport fails the read
\* (part_001:103, http.NewRequestWithContext) and the select has Done ready.
BridgeStep == Bridge /\ UNCHANGED <<regVars, replyVars, transVars>>

ProducerStepAfterCancel ==
  CtxDone /\ Producer /\ UNCHANGED <<regVars, replyVars, transVars>>

SpecTurnFair ==
  SpecTurn /\ WF_vars(BridgeStep) /\ WF_vars(ProducerStepAfterCancel)

\* ------------------------------------------------------------------- Spec
Next ==
  /\ \E p \in Procs :
       \/ Begin(p)
       \/ GetOrCreate(p)
       \/ Stop(p)
       \/ Lookup(p)
       \/ ListMappedSessions(p)
       \/ handleRunSSE(p)
       \/ handleCreateSession(p)
       \/ DeleteRespond(p)
  /\ UNCHANGED <<turnVars, replyVars, transVars>>

Spec == Init /\ [][Next]_vars

\* Scheduling of the registry: a request that has begun keeps running when
\* it can, and every backend call returns (weak fairness of each request's
\* steps).  New requests need not arrive.
RequestStep(p) ==
  /\ \/ GetOrCreate(p)
     \/ Stop(p)
     \/ Lookup(p)
     \/ ListRLock(p)
     \/ ListCopy(p)
     \/ handleRunSSE(p)
     \/ handleCreateSession(p)
     \/ DeleteRespond(p)
  /\ UNCHANGED <<turnVars, replyVars, transVars>>

\* The liveness of the registry is checked on runs of MaxFairRequests requests.
NextFair == Next /\ requests' <= MaxFairRequests

SpecFair ==
  Init /\ [][NextFair]_vars /\ \A p \in Procs : WF_vars(RequestStep(p))

\* ================================================================= claims
\* The positions at which a request holds sm.mu (shared or exclusive).
InCS(p) ==
  procs[p].pc \in {"gocFast", "gocCheck", "gocStart", "gocFail", "gocPutFwd",
                   "gocPutRev", "stopCheck", "stopMiss", "stopDelFwd",
                   "stopDelRev", "stopUnlock", "lkRead", "lsCopy"}

\* GetOrCreate has returned to handleRunSSE (the Reply call may be in flight).
Returned(p) == procs[p].pc \in {"gocRet", "runReply"}

\* C1: concurrent GetOrCreate calls for one external id, with no Stop of that
\* id in between and StartAgent succeeding: StartAgent succeeds exactly once
\* for the id while it is mapped (never twice), and every such caller returns
\* the backend id the forward table holds, hence all the same one.
C1_SingleCreation ==
  /\ \A e \in ExtIds : nStartOK[e] <= 1
  /\ \A e \in DOMAIN adkToGoose : nStartOK[e] = 1
  /\ \A p \in Procs :
       (Returned(p) /\ procs[p].err = ErrNil /\ ~procs[p].stale)
         => /\ procs[p].sid \in DOMAIN adkToGoose
            /\ adkToGoose[procs[p].sid] = procs[p].gooseID
            /\ procs[p].nStart <= 1

\* Two callers of the same id have returned: one made the start call, the
\* other had missed the optimistic read and found the entry on the second check.
C1_Witness ==
  \E p, q \in Procs :
    /\ p # q /\ procs[p].sid = procs[q].sid
    /\ Returned(p) /\ Returned(q)
    /\ ~procs[p].stale /\ ~procs[q].stale
    /\ procs[p].via = "start" /\ procs[p].err = ErrNil /\ procs[q].via = "recheck"

\* C2: whenever no request holds the exclusive lock, the two tables are mutual
\* inverses, for whatever session ids StartAgent returns.
C2_Bijection ==
  muWriter = NoProc =>
    /\ \A e \in DOMAIN adkToGoose :
         adkToGoose[e] \in DOMAIN gooseToADK /\ gooseToADK[adkToGoose[e]] = e
    /\ \A g \in DOMAIN gooseToADK :
         gooseToADK[g] \in DOMAIN adkToGoose /\ adkToGoose[gooseToADK[g]] = g

\* C6: a failing StartAgent makes GetOrCreate return an error with both tables
\* as they were when it took the lock and no entry for its id; the failure is
\* not remembered: every failing return made a start call of its own.
C6_FailedStartInstallsNothing ==
  \A p \in Procs :
    /\ At(p, "gocFail") =>
         /\ muWriter = p
         /\ Tables = lockSnap
         /\ procs[p].sid \notin DOMAIN adkToGoose
         /\ \A g \in DOMAIN gooseToADK : gooseToADK[g] # procs[p].sid \/ g \in DOMAIN lockSnap.g2a
    /\ (procs[p].pc \in {"gocFail", "gocRet"} /\ procs[p].err # ErrNil)
         => procs[p].nStart = 1 /\ procs[p].gooseID = ""

\* A start call for an id is in flight after an earlier request for the same
\* id was answered with the start failure.
C6_Witness ==
  \E p, q \in Procs :
    /\ p # q /\ procs[p].sid = procs[q].sid
    /\ procs[p].pc = "done" /\ procs[p].kind = "run"
    /\ procs[p].status = StatusInternalServerError /\ procs[p].err = ErrBackend
    /\ At(q, "gocStart")

\* C7: a Stop that took the lock while its id was unmapped changes no table,
\* issues no StopAgent call and returns the not-found error.
C7_StopUnmapped ==
  \A p \in Procs :
    /\ (procs[p].kind = "delete" /\ muWriter = p /\ procs[p].pc # "stopLock"
          /\ procs[p].sid \notin DOMAIN lockSnap.a2g)
         => /\ procs[p].pc \in {"stopCheck", "stopMiss"}
            /\ Tables = lockSnap
            /\ procs[p].nStop = 0
    /\ (procs[p].pc = "stopRet" /\ procs[p].nStop = 0)
         => procs[p].err = ErrNotFound
    /\ (procs[p].pc = "stopRet" /\ procs[p].err = ErrNotFound)
         => procs[p].nStop = 0

C7_Witness ==
  \E p \in Procs : At(p, "stopRet") /\ procs[p].err = ErrNotFound

\* C8: while one direction is removed and the other is not, the remover holds
\* the exclusive lock and no other request is inside a locked section; when it
\* releases the lock both entries are gone and no StopAgent call was issued yet;
\* the call is issued with no lock held.
C8_StopAtomic ==
  \A p \in Procs :
    /\ procs[p].pc \in {"stopDelFwd", "stopDelRev", "stopUnlock"}
         => /\ muWriter = p /\ muReaders = {}
            /\ \A q \in Procs \ {p} : ~InCS(q)
            /\ procs[p].nStop = 0
    /\ At(p, "stopUnlock")
         => /\ procs[p].sid \notin DOMAIN adkToGoose
            /\ procs[p].gooseID \notin DOMAIN gooseToADK
            /\ procs[p].gooseID = lockSnap.a2g[procs[p].sid]
    /\ procs[p].nStop > 0 => muWriter # p /\ p \notin muReaders /\ procs[p].nStop = 1

\* The forward entry is deleted, the reverse one is not yet, and another
\* request waits for the lock.
C8_Witness ==
  \E p, q \in Procs :
    /\ p # q /\ At(p, "stopDelRev")
    /\ procs[p].gooseID \in DOMAIN gooseToADK
    /\ procs[q].pc \in {"lkRLock", "lsRLock", "gocRLock", "gocLock", "stopLock"}

\* C9: a DELETE answered for a missing mapping and a DELETE answered for a
\* failed StopAgent call never carry the same status.
C9_NotFoundDistinct ==
  \A p, q \in Procs :
    (/\ procs[p].pc = "done" /\ procs[p].kind = "delete" /\ procs[p].err = ErrNotFound
     /\ procs[q].pc = "done" /\ procs[q].kind = "delete" /\ procs[q].err = ErrBackend)
      => procs[p].status # procs[q].status

\* C10: a run_sse request without new_message never goes past the check of
\* its body: it issues no StartAgent and no Reply call, never enters the
\* registry, and is answered 400.
C10_MissingMessageRejected ==
  \A p \in Procs :
    (procs[p].kind = "run" /\ procs[p].body = "nomsg")
      => /\ procs[p].pc \in {"runDecode", "done"}
         /\ procs[p].nStart = 0 /\ procs[p].nReply = 0
         /\ ~InCS(p) /\ muWriter # p /\ p \notin muReaders
         /\ procs[p].pc = "done" => procs[p].status = StatusBadRequest

C10_Witness ==
  \E p \in Procs :
    /\ procs[p].pc = "done" /\ procs[p].kind = "run" /\ procs[p].body = "nomsg"
    /\ procs[p].status = StatusBadRequest
    /\ procs[p].sid \notin DOMAIN adkToGoose

\* ------------------------------------------------------ the streaming turn
\* The frame of a decoded event: what the loop writes for it.  An event whose
\* translation panics has no frame and ends the turn.
Aborts == [aborted |-> TRUE]

RECURSIVE Expected(_)
Expected(events) ==
  IF events = <<>> THEN <<>>
  ELSE LET e == Head(events)
       IN IF TranslationPanics(e) THEN <<Aborts>>
          ELSE IF GooseSSEEventToADKEvent(e, InvocationID) = NilPtr
               THEN Expected(Tail(events))
               ELSE <<GooseSSEEventToADKEvent(e, InvocationID)[1]>>
                      \o Expected(Tail(events))

IsPrefix(s, t) == Len(s) <= Len(t) /\ \A i \in 1..Len(s) : s[i] = t[i]

\* C3: once the caller's cancellation signal has fired, the loop writes no
\* further frame: the frames are those written when the signal fired.
C3_NoWriteAfterCancel ==
  cancelSnap # <<>> => Len(frames) = cancelSnap[1].frames

\* C3 (amended): once the caller's cancellation signal has fired, the loop
\* receives no further event; it writes at most one further frame, the frame
\* of the event it had already received when the signal fired.
C3_AtMostInFlightFrame ==
  cancelSnap # <<>> =>
    LET snap == cancelSnap[1]
    IN /\ nRecv = snap.nRecv
       /\ Len(frames) <= snap.frames + 1
       /\ Len(frames) = snap.frames + 1 =>
            /\ snap.got # NilPtr
            /\ ~TranslationPanics(snap.got[1])
            /\ Ptr(frames[Len(frames)])
                 = GooseSSEEventToADKEvent(snap.got[1], InvocationID)
       /\ pcB = "cancelled" => got = NilPtr /\ out = NilPtr

C3_Witness ==
  /\ cancelSnap # <<>>
  /\ Len(frames) = cancelSnap[1].frames + 1
  /\ pcB = "cancelled"
  /\ pcP = "closed"
  /\ Len(decoded) > nRecv

\* C4: the frames written are a prefix of the translations, in arrival order,
\* of the decoded events, without those that translate to nothing.
C4_FramesPrefix == IsPrefix(frames, Expected(decoded))

C4_Witness ==
  /\ Len(frames) = 2
  /\ Len(decoded) = 3
  /\ decoded[2] = EvPing
  /\ frames[1] # frames[2]
  /\ frames = Expected(decoded)

\* C5: a turn the caller never cancels stops only in Terminal(Ended), with one
\* frame for each decoded Message, Finish and Error event and none for a Ping;
\* one Message then one Finish give a content frame and a turn_complete frame
\* with the usage counters.
C5_EndsWithAllFrames ==
  (~Streaming /\ ctxDone # "caller") =>
    /\ pcB = "ended"
    /\ frames = Expected(decoded)
    /\ Len(frames) = Cardinality({i \in 1..Len(decoded) :
                        decoded[i].type \in {"Message", "Finish", "Error"}})
    /\ decoded = <<EvMessage, EvFinish>> =>
         /\ Len(frames) = 2
         /\ frames[1].content # NilPtr /\ ~frames[1].turnComplete
         /\ frames[2].turnComplete
         /\ frames[2].usageMetadata
              = Ptr([promptTokenCount |-> 10, candidatesTokenCount |-> 5,
                     totalTokenCount |-> 15])

\* C11: a run_sse request that ends because the backend could not be reached,
\* at the session-start call or at the reply call, is answered with the
\* gateway status, and its event stream was never started.
C11_BackendFailureIsGatewayError ==
  \A p \in Procs :
    (procs[p].pc = "done" /\ procs[p].kind = "run" /\ procs[p].err = ErrBackend)
      => procs[p].status = StatusBadGateway

C13_DistinctIds ==
  /\ \A p, q \in Procs :
       (/\ p # q
        /\ procs[p].kind = "create" /\ procs[q].kind = "create"
        /\ procs[p].pc \notin {"createId", "idle"}
        /\ procs[q].pc \notin {"createId", "idle"})
         => procs[p].sid # procs[q].sid
  /\ \A p \in Procs :
       (procs[p].pc = "done" /\ procs[p].kind = "create"
          /\ procs[p].status = StatusOK)
         => procs[p].nStart = 1

\* C14: a DELETE of a mapped session answered 200 leaves the external id
\* absent from the registry.
C14_AbsentAfterDelete ==
  \A p \in Procs :
    (procs[p].pc = "done" /\ procs[p].kind = "delete"
       /\ procs[p].status = StatusOK)
      => procs[p].sid \notin DOMAIN adkToGoose

\* C14 (amended): a DELETE of a mapped session is answered 200 exactly when
\* its StopAgent call returned no error; it has then issued exactly one
\* StopAgent call, for the backend id of the entry it deleted, and the external
\* id is absent from the registry unless a StartAgent call for it has succeeded
\* since the deletion.
C14_DeleteStopsOnce ==
  \A p \in Procs :
    procs[p].kind = "delete" =>
      /\ procs[p].nStop = 1 =>
           /\ procs[p].pc \in {"stopAwait", "stopRet", "done"}
           /\ procs[p].pc # "done" =>
                procs[p].gooseID = procs[p].had /\ procs[p].had \in GooseIds
      /\ procs[p].pc = "stopRet" =>
           (procs[p].err \in {ErrNil, ErrBackend} <=> procs[p].nStop = 1)
      /\ procs[p].pc = "done" =>
           /\ procs[p].status = StatusOK <=> procs[p].err = ErrNil
           /\ procs[p].err # ErrNotFound <=> procs[p].nStop = 1
           /\ procs[p].status = StatusOK =>
                (nStartOK[procs[p].sid] = 0
                   => procs[p].sid \notin DOMAIN adkToGoose)

C14_Witness ==
  \E p, q \in Procs :
    /\ procs[p].pc = "done" /\ procs[p].kind = "delete"
    /\ procs[p].status = StatusOK /\ procs[p].nStop = 1
    /\ procs[p].sid \notin DOMAIN adkToGoose
    /\ procs[q].pc = "done" /\ procs[q].kind = "lookup"
    /\ procs[q].sid = procs[p].sid /\ ~procs[q].found

\* C15: after the caller cancels a streaming turn, under fair scheduling the
\* loop of the bridge stops and the producer goroutine exits, which closes the
\* channel and the response body.
C15_CancelTerminatesBoth ==
  (ctxDone = "caller") ~> (~Streaming /\ pcP = "closed" /\ pending = NilPtr)

C15_Witness ==
  /\ ctxDone = "caller"
  /\ pcB = "cancelled"
  /\ pcP = "closed"
  /\ nRead < MaxLines
  /\ Len(frames) = cancelSnap[1].frames

\* C16: the map ListMappedSessions returns equals the forward table at the
\* instant of the copy, made under the shared lock; afterwards no step of the
\* registry changes what its holder reads in it, and a write of the holder
\* changes neither table.
HoldsSnapshot(p) == procs[p].kind = "list" /\ procs[p].pc = "done"

C16_SnapshotIndependent ==
  [][\A p \in Procs :
       /\ (procs[p].pc = "lsCopy" /\ procs'[p].pc = "done")
            => /\ p \in muReaders /\ muWriter = NoProc
               /\ Snapshot(p)' = adkToGoose
       /\ (HoldsSnapshot(p) /\ HoldsSnapshot(p)')
            => IF procs'[p].out # procs[p].out
               THEN Tables' = Tables
               ELSE Snapshot(p)' = Snapshot(p)]_vars

C16_Witness ==
  \E p \in Procs :
    /\ HoldsSnapshot(p)
    /\ "a" \in DOMAIN Snapshot(p)
    /\ "a" \notin DOMAIN adkToGoose

\* C17: no step of GetGooseSessionID, of ListMappedSessions, or of a
\* GetOrCreate up to the lookup that finds the mapping changes a table or
\* issues a backend call; a GetOrCreate that finds the mapping returns the
\* backend id stored.
ReadOnlyPc ==
  {"lkRLock", "lkRead", "lsRLock", "lsCopy", "gocRLock", "gocFast", "gocLock",
   "gocCheck"}

C17_ReadPathsLeaveRegistry ==
  [][\A p \in Procs :
       (procs[p].pc \in ReadOnlyPc /\ procs'[p].pc # procs[p].pc
          /\ procs'[p].pc # "gocStart")
         => /\ Tables' = Tables
            /\ procs'[p].nStart = 0 /\ procs'[p].nStop = 0
            /\ procs'[p].nReply = 0
            /\ procs'[p].pc = "gocRet" =>
                 /\ procs'[p].err = ErrNil
                 /\ procs[p].sid \in DOMAIN adkToGoose
                 /\ procs'[p].gooseID = adkToGoose[procs[p].sid]
            /\ (procs[p].pc = "lkRead" /\ procs'[p].found) =>
                 procs'[p].gooseID = adkToGoose[procs[p].sid]]_vars

C17_Witness ==
  \E p, q \in Procs :
    /\ procs[p].pc = "gocRet" /\ procs[p].via = "fast"
    /\ procs[p].gooseID = adkToGoose[procs[p].sid]
    /\ procs[q].pc = "done" /\ procs[q].kind = "lookup" /\ procs[q].found
    /\ procs[q].sid = procs[p].sid

\* C18: Reply returns an event source exactly when the backend answered the
\* reply request with status 200; for every other status, redirects included,
\* it returns an error, with no channel made, no producer started and the
\* response body closed.
C18_SourceIffOK ==
  rpc \in {"failed", "source"} =>
    /\ rpc = "source" <=> answered = StatusOK
    /\ rpc = "failed" => ~chMade /\ ~producerUp /\ ~bodyOpen

\* C19: for any invocation id the translation of an event is nothing (no
\* event, no error) exactly when its type is none of Message, Finish and
\* Error; the loop writes no frame for such an event and goes back to its
\* select.
MappedTypes == {"Message", "Finish", "Error"}

C19_NothingIffUnmapped ==
  [][/\ \A e \in Events, inv \in InvocationIDs :
          (~TranslationPanics(e) /\ GooseSSEEventToADKEvent(e, inv) = NilPtr)
            <=> e.type \notin MappedTypes
     /\ (pcB = "translate" /\ pcB' # "translate")
          => IF got[1].type \in MappedTypes
             THEN pcB' \in {"write", "panicked"}
             ELSE pcB' = "select" /\ frames' = frames /\ out' = NilPtr]_vars

C19_Witness ==
  /\ pcB = "select"
  /\ decoded = <<EvPing, EvUnknown>>
  /\ nRecv = 2
  /\ frames = <<>>
  /\ ctxDone = "no"

\* C20: the translation of a decoded event never fails: also for a Message
\* event without message and for a toolRequest part without toolCall it
\* returns, and the turn is not aborted.
C20_TranslationNeverAborts ==
  /\ pcB = "translate" => ~TranslationPanics(got[1])
  /\ pcB # "panicked"

\* --------------------------------------------------------------------- C21
\* The input is an event of the given type.
InputIs(type) == tin.kind = "event" /\ tin.event[1].type = type

\* C21: a Finish event translates to exactly one outbound event whose
\* turnComplete is true; it carries usage metadata exactly when the event
\* carries a token state, and then the three counters are the backend's.
C21_FinishTranslation ==
  InputIs("Finish") =>
    \A i \in 1..Len(touts) :
      /\ ~touts[i].panicked
      /\ touts[i].evt # NilPtr
      /\ LET evt == touts[i].evt[1]
             ts == tin.event[1].tokenState
         IN /\ evt.turnComplete
            /\ evt.usageMetadata # NilPtr <=> ts # NilPtr
            /\ IF ts = NilPtr THEN TRUE
               ELSE /\ evt.usageMetadata[1].promptTokenCount = ts[1].inputTokens
                    /\ evt.usageMetadata[1].candidatesTokenCount = ts[1].outputTokens
                    /\ evt.usageMetadata[1].totalTokenCount = ts[1].totalTokens

C21_Witness ==
  /\ InputIs("Finish")
  /\ tin.event[1].tokenState = Ptr(Tokens)
  /\ Len(touts) = 1
  /\ touts[1].evt # NilPtr
  /\ touts[1].evt[1].usageMetadata # NilPtr
  /\ touts[1].evt[1].usageMetadata[1].totalTokenCount = 15

\* --------------------------------------------------------------------- C22
\* C22: a Message event translates to exactly one outbound event whose
\* turnComplete is false, which has no error code and no error message, and
\* whose content has role model when the backend's role is assistant and the
\* backend's role otherwise.
C22_MessageTranslation ==
  InputIs("Message") =>
    \A i \in 1..Len(touts) :
      /\ ~touts[i].panicked
      /\ touts[i].evt # NilPtr
      /\ LET evt == touts[i].evt[1]
         IN /\ ~evt.turnComplete
            /\ evt.errorCode = ""
            /\ evt.errorMessage = ""
            /\ evt.content # NilPtr
            /\ evt.content[1].role =
                 IF tin.event[1].message[1].role = "assistant" THEN "model"
                 ELSE tin.event[1].message[1].role

C24_MappedType(mc) ==
  mc.type \in {"text", "toolRequest", "toolResponse", "thinking", "reasoning"}

\* The outbound part is the translation of the backend part: text keeps its
\* text; a tool request keeps its name, arguments and call id.
C24_Keeps(mc, part) ==
  CASE mc.type = "text" ->
         part.text = mc.text /\ ~part.thought /\ part.functionCall = NilPtr
           /\ part.functionResponse = NilPtr
    [] mc.type = "toolRequest" ->
         /\ part.functionCall # NilPtr
         /\ mc.toolCall # NilPtr
         /\ part.functionCall[1].id = mc.id
         /\ part.functionCall[1].name = mc.toolCall[1].name
         /\ part.functionCall[1].args = mc.toolCall[1].arguments
    [] mc.type = "toolResponse" ->
         part.functionResponse # NilPtr /\ part.functionResponse[1].id = mc.id
    [] OTHER -> part.thought /\ part.functionCall = NilPtr

\* C24: for every message, the outbound parts are the input parts of a mapped
\* type (text, toolRequest, toolResponse, thinking, reasoning), translated one
\* to one and in order; parts of any other type are skipped without error.
C24_PartsOneToOne ==
  (InputIs("Message") /\ tin.event[1].message # NilPtr) =>
    \A i \in 1..Len(touts) :
      /\ ~touts[i].panicked
      /\ touts[i].evt # NilPtr
      /\ LET kept == SelectSeq(tin.event[1].message[1].content, C24_MappedType)
             parts == touts[i].evt[1].content[1].parts
         IN /\ Len(parts) = Len(kept)
            /\ \A j \in 1..Len(kept) : C24_Keeps(kept[j], parts[j])

\* --------------------------------------------------------------------- C25
\* The sub-parts of the tool result of the given kind, in order.
C25_TextTyped(tr) == SelectSeq(tr[1].content, LAMBDA c : c.type = "text")

C25_NonEmptyText(tr) ==
  SelectSeq(tr[1].content, LAMBDA c : c.type = "text" /\ c.text # "")

\* C25 as stated: the text of a tool response is the text of the first
\* text-typed sub-part of the tool result whenever it has a text-typed
\* sub-part; otherwise the JSON encoding of the structured payload when there
\* is one; otherwise the empty string.
C25_FirstTextTyped ==
  (tin.kind = "toolResult" /\ xout # NilPtr) =>
    xout[1] =
      IF tin.toolResult = NilPtr THEN ""
      ELSE IF C25_TextTyped(tin.toolResult) # <<>>
           THEN C25_TextTyped(tin.toolResult)[1].text
      ELSE IF tin.toolResult[1].structuredContent # NilPtr
           THEN Marshal(tin.toolResult[1].structuredContent)
           ELSE ""

\* C25, amended: the text is that of the first text-typed sub-part whose text
\* is not empty, whenever there is one; otherwise the JSON encoding of the
\* structured payload when there is one; otherwise the empty string.
C25_FirstNonEmptyText ==
  (tin.kind = "toolResult" /\ xout # NilPtr) =>
    xout[1] =
      IF tin.toolResult = NilPtr THEN ""
      ELSE IF C25_NonEmptyText(tin.toolResult) # <<>>
           THEN C25_NonEmptyText(tin.toolResult)[1].text
      ELSE IF tin.toolResult[1].structuredContent # NilPtr
           THEN Marshal(tin.toolResult[1].structuredContent)
           ELSE ""

\* an empty text sub-part is passed over for the structured payload
C25_Witness ==
  /\ tin.kind = "toolResult"
  /\ tin.toolResult # NilPtr
  /\ C25_TextTyped(tin.toolResult) # <<>>
  /\ C25_NonEmptyText(tin.toolResult) = <<>>
  /\ tin.toolResult[1].structuredContent = Ptr([ok |-> "yes"])
  /\ xout = Ptr("{\"ok\":\"yes\"}")

\* --------------------------------------------------------------------- C26
\* An outcome without the generated id and time.
C26_Unstamped(o) ==
  IF o.evt = NilPtr THEN o
  ELSE [o EXCEPT !.evt =
          Ptr([f \in DOMAIN o.evt[1] \ {"id", "time"} |-> o.evt[1][f]])]

C27_TextOrCall(part) ==
  /\ part.functionResponse = NilPtr
  /\ part.inlineData = NilPtr
  /\ (part.text # "") # (part.functionCall # NilPtr)

\* The inbound contents of the round trip: role user or model, and every part
\* a non-empty text or a function call.
C27_InDomain ==
  /\ tin.kind = "content"
  /\ tin.content[1].role \in {"user", "model"}
  /\ \A i \in 1..Len(tin.content[1].parts) :
       C27_TextOrCall(tin.content[1].parts[i])

\* C27: translating such a content to a backend message and that message back
\* gives the same role and the same parts in the same order: every text, and
\* every function call's id, name and arguments.
C27_RoundTrip ==
  (C27_InDomain /\ cback # NilPtr) =>
    /\ cback[1].role = tin.content[1].role
    /\ Len(cback[1].parts) = Len(tin.content[1].parts)
    /\ \A i \in 1..Len(tin.content[1].parts) :
         /\ cback[1].parts[i].text = tin.content[1].parts[i].text
         /\ cback[1].parts[i].functionCall = tin.content[1].parts[i].functionCall
         /\ ~tin.content[1].parts[i].thought
              => cback[1].parts[i] = tin.content[1].parts[i]

\* a model content of a text and a function call with arguments, back again
C27_Witness ==
  /\ C27_InDomain
  /\ cback # NilPtr
  /\ tin.content[1].role = "model"
  /\ cmsg[1].role = "assistant"
  /\ Len(tin.content[1].parts) = 2
  /\ tin.content[1].parts[1].text = "hi"
  /\ tin.content[1].parts[2].functionCall # NilPtr
  /\ cback[1].parts[2].functionCall[1].args = Ptr([path |-> "/tmp"])

\* --------------------------------------------------------------------- C28
\* The frame of a Finish or of an Error event.
C28_FinalFrame(evt) == evt.turnComplete \/ evt.errorCode # ""

\* Such a frame has been written in this turn.
C28_FinalWritten == \E i \in 1..Len(frames) : C28_FinalFrame(frames[i])

\* C28: writing the frame of a Finish or an Error event does not end the
\* turn.  The loop goes back to its select; every event delivered afterwards
\* is still translated and written; the turn leaves Streaming only because
\* the channel is closed or the context is cancelled.
C28_FinishDoesNotEnd ==
  [][/\ (pcB = "write" /\ frames' # frames /\ C28_FinalFrame(out[1]))
          => pcB' = "select"
     /\ (C28_FinalWritten /\ Streaming /\ ~Streaming')
          => \/ pcB' = "ended" /\ pcP = "closed"
             \/ pcB' = "cancelled" /\ CtxDone]_vars

\* --------------------------------------------------------------------- C29
\* C29: when the loop finds the channel closed it ends the turn and writes
\* nothing more: the frames are those already written, also when the last
\* event was an Error or no Finish was received.
C29_ClosureWritesNothing ==
  [][(pcB' = "ended" \/ pcB = "ended") => frames' = frames]_vars

\* the turn ended after an Error frame, without any Finish
C29_Witness ==
  /\ pcB = "ended"
  /\ Len(frames) > 0
  /\ frames[Len(frames)].errorCode = "GOOSE_ERROR"
  /\ \A i \in 1..Len(frames) : ~frames[i].turnComplete
  /\ \A i \in 1..Len(decoded) : decoded[i].type # "Finish"

\* --------------------------------------------------------------------- C30
\* C30: the channel is closed exactly once, by the producer as it exits (the
\* body is exhausted or its read fails, or the context is cancelled while it
\* offers an event); the producer sends nothing after closing; the loop finds
\* the channel closed only after it has received every event the producer
\* sent.
C30_ClosedOnceByProducer ==
  [][/\ nClose' <= 1
     /\ (pcP' = "closed") = (nClose' = 1)
     /\ nClose' > nClose
          => /\ pcB' = pcB
             /\ pcP = "scan" \/ (pcP = "send" /\ CtxDone)
     /\ nClose = 1
          => nRecv' = nRecv /\ decoded' = decoded /\ pending' = NilPtr
     /\ (pcB' = "ended" /\ pcB # "ended")
          => /\ nClose = 1
             /\ pending = NilPtr
             /\ got = NilPtr
             /\ nRecv >= Len(decoded) - 1
             /\ nRecv < Len(decoded) => CtxDone]_vars

\* closed after two events were sent and received, then found closed
C30_Witness ==
  /\ pcB = "ended"
  /\ nClose = 1
  /\ nRecv = 2
  /\ Len(decoded) = 2
  /\ ~CtxDone

\* --------------------------------------------------------------------- C31
\* The producer is blocked in its send and the context is cancelled.
C31_BlockedAndCancelled == pcP = "send" /\ CtxDone

\* C31: when the cancellation fires while the producer is blocked sending a
\* decoded event, the producer gives the send up and exits: that event is
\* never received by the loop, no further line of the body is read, and under
\* fair scheduling the producer terminates.
C31_AbandonsSend ==
  /\ [][C31_BlockedAndCancelled
          => /\ nRecv' = nRecv
             /\ nRead' = nRead
             /\ decoded' = decoded
             /\ pcP' \in {"send", "closed"}]_vars
  /\ [][pcP = "closed" /\ CtxDone
          => nRecv' = nRecv /\ nRead' = nRead /\ pcP' = "closed"]_vars
  /\ (C31_BlockedAndCancelled ~> pcP = "closed")

\* the caller cancelled while an event was on offer; the producer has exited
\* and the event was not received
C31_Witness ==
  /\ ctxDone = "caller"
  /\ pcP = "closed"
  /\ pending = NilPtr
  /\ Len(decoded) = nRecv + 1
  /\ cancelSnap # <<>>
  /\ cancelSnap[1].nRecv = nRecv
  /\ nRead < MaxLines

\* --------------------------------------------------------------------- C32
\* C32: at every moment of a turn the producer has decoded at most one event
\* more than the loop has received, and it reads no line of the body while a
\* decoded event is still on offer.
C32_Backpressure ==
  /\ [](Len(decoded) <= nRecv + 1)
  /\ [][pending # NilPtr => nRead' = nRead /\ decoded' = decoded]_vars

\* the producer waits with its second event while the loop is still busy
\* with the first
C32_Witness ==
  /\ pending # NilPtr
  /\ pcP = "send"
  /\ Len(decoded) = 2
  /\ nRecv = 1
  /\ pcB \in {"translate", "write"}
  /\ nRead < MaxLines

\* --------------------------------------------------------------------- C33
\* The payloads of the body lines that begin with the data prefix and decode,
\* in order.
RECURSIVE C33_Payloads(_)
C33_Payloads(ls) ==
  IF ls = <<>> THEN <<>>
  ELSE IF Head(ls).prefix = "data: " /\ Head(ls).json # NilPtr
       THEN <<Head(ls).json[1]>> \o C33_Payloads(Tail(ls))
       ELSE C33_Payloads(Tail(ls))

\* C33: the events the producer offers on the channel are, in order, the
\* decoded payloads of exactly the body lines that begin with the data
\* prefix; no line of the body ends the stream, so the frames after a
\* malformed line are still offered.
C33_OfferedAreDataPayloads ==
  /\ [](decoded = C33_Payloads(lines))
  /\ [][lines' # lines => pcP' \in {"scan", "send"}]_vars

\* --------------------------------------------------------------------- C34
\* Slot p gets the result of a GetOrCreate without error, or of a lookup that
\* found an entry, in this step.
C34_GetsId(p) ==
  \/ /\ procs[p].pc \in {"gocFast", "gocCheck", "gocPutRev"}
     /\ procs'[p].pc = "gocRet"
     /\ procs'[p].err = ErrNil
  \/ /\ procs[p].pc = "lkRead"
     /\ procs'[p].pc = "done"
     /\ procs'[p].found

\* C34: while an external id stays mapped its forward entry is never
\* overwritten, and every GetOrCreate and every lookup of the id returns the
\* backend id of that entry, whatever else runs in between.
C34_NeverOverwritten ==
  [][/\ \A e \in ExtIds :
          (e \in DOMAIN adkToGoose /\ e \in DOMAIN adkToGoose')
            => adkToGoose'[e] = adkToGoose[e]
     /\ \A p \in Procs :
          C34_GetsId(p)
            => /\ procs'[p].sid \in DOMAIN adkToGoose'
               /\ procs'[p].gooseID = adkToGoose'[procs'[p].sid]]_vars

\* a GetOrCreate served by the optimistic read and a lookup have returned the
\* id of the same entry
C34_Witness ==
  \E p, q \in Procs :
    /\ p # q /\ procs[p].sid = procs[q].sid
    /\ procs[p].pc = "gocRet" /\ procs[p].via = "fast" /\ ~procs[p].stale
    /\ procs[q].pc = "done" /\ procs[q].kind = "lookup" /\ procs[q].found
    /\ procs[p].sid \in DOMAIN adkToGoose
    /\ procs[p].gooseID = adkToGoose[procs[p].sid]
    /\ procs[q].gooseID = procs[p].gooseID

\* --------------------------------------------------------------------- C35
\* Slot p is between its check of the forward table and its Unlock.
C35_Deciding(p) ==
  procs[p].pc \in {"stopCheck", "stopMiss", "stopDelFwd", "stopDelRev",
                   "stopUnlock"}

\* C35: two Stop calls racing on one mapped id decide one after the other;
\* the one that finds the entry removes it and issues one StopAgent call, for
\* the backend id the entry held; a Stop that decides while the id is
\* unmapped returns not-found and issues no call.  Every StopAgent call is
\* thus paid for by the removal of one installed entry.
C35_OneStopWins ==
  /\ [](\A p, q \in Procs : (p # q /\ C35_Deciding(p)) => ~C35_Deciding(q))
  /\ [][\A p \in Procs :
          /\ (procs[p].pc = "stopCheck" /\ procs'[p].pc = "stopDelFwd")
               => procs[p].sid \in DOMAIN adkToGoose
          /\ (procs[p].pc = "stopCheck" /\ procs'[p].pc = "stopMiss")
               => procs[p].sid \notin DOMAIN adkToGoose
          /\ (procs[p].pc = "stopDelFwd" /\ procs'[p].pc = "stopDelRev")
               => /\ procs[p].sid \in DOMAIN adkToGoose
                  /\ procs[p].sid \notin DOMAIN adkToGoose'
                  /\ procs'[p].had = adkToGoose[procs[p].sid]
          /\ procs'[p].nStop # procs[p].nStop
               => \/ procs'[p].nStop = 0
                  \/ /\ procs[p].pc = "stopCall"
                     /\ procs[p].nStop = 0 /\ procs'[p].nStop = 1
                     /\ procs[p].gooseID = procs[p].had
          /\ (procs[p].pc = "stopMiss" /\ procs'[p].pc = "stopRet")
               => procs'[p].err = ErrNotFound /\ procs'[p].nStop = 0]_vars

\* both Stop calls of one id have returned: one made the StopAgent call, the
\* other found nothing
C35_Witness ==
  \E p, q \in Procs :
    /\ p # q /\ procs[p].sid = procs[q].sid
    /\ procs[p].kind = "delete" /\ procs[q].kind = "delete"
    /\ procs[p].pc = "stopRet" /\ procs[p].nStop = 1
    /\ procs[p].err # ErrNotFound
    /\ procs[q].pc = "stopRet" /\ procs[q].nStop = 0
    /\ procs[q].err = ErrNotFound
    /\ procs[p].sid \notin DOMAIN adkToGoose

\* --------------------------------------------------------------------- C36
\* Stop of slot p has returned the error of its StopAgent call.
C36_StopFailed(p) ==
  /\ procs[p].kind = "delete"
  /\ procs[p].pc \in {"stopRet", "done"}
  /\ procs[p].err = ErrBackend

\* The external id has an entry in neither table.
C36_Unmapped(e) ==
  /\ e \notin DOMAIN adkToGoose
  /\ \A g \in DOMAIN gooseToADK : gooseToADK[g] # e

\* C36: when the StopAgent call fails, Stop returns the error and restores
\* nothing: whenever no request is inside a locked write, the id has no entry
\* in either table until a StartAgent call for it succeeds.  While it is unmapped a Stop of the id takes the
\* not-found return without a backend call, and a GetOrCreate of the id
\* issues a StartAgent call.
C36_FailedStopStaysRemoved ==
  /\ [](\A p \in Procs :
          (C36_StopFailed(p) /\ nStartOK[procs[p].sid] = 0
             /\ muWriter = NoProc)
            => C36_Unmapped(procs[p].sid))
  /\ [][\A p \in Procs :
          /\ (procs[p].pc \in {"stopCall", "stopAwait", "stopRet"}
                /\ procs'[p] # procs[p])
               => adkToGoose' = adkToGoose /\ gooseToADK' = gooseToADK
          /\ (procs[p].pc = "stopCheck" /\ procs[p].sid \notin DOMAIN adkToGoose)
               => procs'[p].pc \in {"stopCheck", "stopMiss"}
                    /\ procs'[p].nStop = 0
          /\ (procs[p].pc = "gocCheck" /\ procs[p].sid \notin DOMAIN adkToGoose)
               => \/ procs'[p].pc = "gocCheck"
                  \/ /\ procs'[p].pc = "gocStart"
                     /\ procs'[p].nStart = procs[p].nStart + 1]_vars

\* the StopAgent call of a Stop failed, and a later GetOrCreate of the id has
\* started a new backend session
C36_Witness ==
  \E p, q \in Procs :
    /\ p # q /\ procs[p].sid = procs[q].sid
    /\ C36_StopFailed(p)
    /\ procs[q].kind = "run" /\ procs[q].pc = "gocRet"
    /\ procs[q].via = "start" /\ procs[q].err = ErrNil /\ ~procs[q].stale
    /\ procs[q].sid \in DOMAIN adkToGoose

\* --------------------------------------------------------------------- C37
\* The StartAgent call of slot p is in flight.
C37_StartInFlight(p) == procs[p].pc = "gocStart"

\* A registry operation of slot q returns in this step.
C37_Completes(q) ==
  \/ /\ procs[q].pc \in {"gocFast", "gocCheck", "gocFail", "gocPutRev"}
     /\ procs'[q].pc = "gocRet"
  \/ /\ procs[q].pc \in {"stopMiss", "stopAwait"}
     /\ procs'[q].pc = "stopRet"
  \/ /\ procs[q].pc \in {"lkRead", "lsCopy"}
     /\ procs'[q].pc = "done"

\* C37 as stated: at most one StartAgent call is in flight, and while one is
\* in flight no lookup, listing, Stop or GetOrCreate of another request
\* completes.
C37_NothingCompletes ==
  /\ [](\A p, q \in Procs :
          (C37_StartInFlight(p) /\ C37_StartInFlight(q)) => p = q)
  /\ [][\A p, q \in Procs :
          (p # q /\ C37_StartInFlight(p)) => ~C37_Completes(q)]_vars

\* C37, amended: the StartAgent call is issued under the exclusive lock, so at
\* most one is in flight, no other request is inside a locked section while
\* it is, and no lookup, listing or GetOrCreate completes meanwhile; the only
\* operation that does is a Stop that had released the lock before and is
\* waiting for its own StopAgent call.
C37_OnlyUnlockedStopCompletes ==
  /\ [](\A p \in Procs :
          C37_StartInFlight(p)
            => /\ muWriter = p /\ muReaders = {}
               /\ \A q \in Procs \ {p} : ~InCS(q) /\ ~C37_StartInFlight(q))
  /\ [][\A p, q \in Procs :
          (p # q /\ C37_StartInFlight(p) /\ C37_Completes(q))
            => procs[q].pc = "stopAwait"]_vars

\* a StartAgent call and the StopAgent call of an earlier Stop are in flight
\* together
C37_Witness ==
  \E p, q \in Procs :
    /\ p # q
    /\ C37_StartInFlight(p)
    /\ procs[q].pc = "stopAwait"
    /\ muWriter = p

\* --------------------------------------------------------------------- C38
\* Slot p is inside a call of the registry.
C38_InCall(p) ==
  procs[p].pc \in {"gocRLock", "gocFast", "gocLock", "gocCheck", "gocStart",
                   "gocFail", "gocPutFwd", "gocPutRev", "stopLock",
                   "stopCheck", "stopMiss", "stopDelFwd", "stopDelRev",
                   "stopUnlock", "stopCall", "stopAwait", "lkRLock", "lkRead",
                   "lsRLock", "lsCopy"}

\* Slot p holds the shared lock, the exclusive lock.
C38_HoldsShared(p) == p \in muReaders

C38_HoldsExclusive(p) == muWriter = p

\* C38: the registry cannot deadlock.  No call waits for a lock while it
\* holds one; a lock is held only inside the section that took it, so every
\* return, also on the error and not-found paths, has released it; Stop calls
\* the backend with no lock held; and with every backend call returning, every
\* GetOrCreate, Stop, lookup and listing returns under fair scheduling.
C38_NoDeadlock ==
  /\ [](\A p \in Procs :
          /\ procs[p].pc \in {"gocRLock", "gocLock", "stopLock", "lkRLock",
                              "lsRLock"}
               => ~C38_HoldsShared(p) /\ ~C38_HoldsExclusive(p)
          /\ C38_HoldsShared(p) => procs[p].pc \in {"gocFast", "lkRead", "lsCopy"}
          /\ C38_HoldsExclusive(p)
               => procs[p].pc \in {"gocCheck", "gocStart", "gocFail",
                                   "gocPutFwd", "gocPutRev", "stopCheck",
                                   "stopMiss", "stopDelFwd", "stopDelRev",
                                   "stopUnlock"}
          /\ procs[p].pc \in {"stopCall", "stopAwait"}
               => ~C38_HoldsShared(p) /\ ~C38_HoldsExclusive(p))
  /\ \A p \in Procs : C38_InCall(p) ~> ~C38_InCall(p)

\* a GetOrCreate has returned its StartAgent error while another request was
\* waiting for the lock it held
C38_Witness ==
  \E p, q \in Procs :
    /\ p # q
    /\ procs[p].pc = "gocRet" /\ procs[p].err = ErrBackend
    /\ procs[q].pc \in {"gocRLock", "lkRLock", "lsRLock", "stopLock", "gocLock"}
    /\ muWriter = NoProc /\ muReaders = {}

\* ------------------------------------------- a Stop while a turn is streaming
\* The registry and one streaming turn together.  handleRunSSE has resolved
\* "a" (session.go:34-61 through the slow path) and Reply has returned its
\* channel (handler.go:99-111): the mapping a -> g1 is installed, the run
\* request has its 200 header, and the loop of handler.go:125-152 runs as the
\* turn.  Further requests are DELETE and run_sse of the same id, one after
\* another, each running concurrently with the turn.
MaxStopRequests == 2

MaxStopLines == 1

TurnId == "a"

StopProcs == {1}

InitStopDuringTurn ==
  /\ adkToGoose = MapPut(EmptyMap, TurnId, "g1")
  /\ gooseToADK = MapPut(EmptyMap, "g1", TurnId)
  /\ muWriter = NoProc
  /\ muReaders = {}
  /\ procs = [p \in Procs |->
                IF p = 1
                THEN [IdleProc EXCEPT !.pc = "done", !.kind = "run",
                                      !.sid = TurnId, !.status = StatusOK,
                                      !.nStart = 1, !.nReply = 1]
                ELSE IdleProc]
  /\ requests = 1
  /\ nStartOK = [e \in ExtIds |-> IF e = TurnId THEN 1 ELSE 0]
  /\ lockSnap = NoSnap
  /\ InitTurn
  /\ InitReply
  /\ InitTranslateIdle

\* handler.go:155-164, 85-99  a DELETE or a run_sse of the turn's id arrives
BeginOnTurnId(p) ==
  /\ Begin(p)
  /\ procs'[p].kind \in {"delete", "run"}
  /\ procs'[p].sid = TurnId
  /\ procs'[p].body = "msg"

StopDuringTurnCancels(p) ==
  /\ Stop(p)
  /\ ctxDone' = IF At(p, "stopDelFwd") /\ ctxDone = "no" THEN "server" ELSE ctxDone
  /\ UNCHANGED <<pcP, pcB, nRead, pending, got, out, frames, decoded, nRecv,
                 cancelSnap, nClose, lines>>

\* session.go:65-77  Stop works on the two maps and calls StopAgent with the
\* background context: the channel and the request context of handler.go:107
\* belong to the run request and are not reachable from the SessionManager
StopDuringTurn(p) == Stop(p) /\ UNCHANGED turnVars

NextStopDuringTurn ==
  \/ /\ \E p \in StopProcs :
          \/ /\ \/ BeginOnTurnId(p)
                \/ GetOrCreate(p)
                \/ handleRunSSE(p)
                \/ DeleteRespond(p)
             /\ UNCHANGED turnVars
          \/ StopDuringTurn(p)
     /\ requests' <= MaxStopRequests + 1
     /\ UNCHANGED <<replyVars, transVars>>
  \/ /\ NextTurn
     /\ nRead' <= MaxStopLines

SpecStopDuringTurn == InitStopDuringTurn /\ [][NextStopDuringTurn]_vars

\* C39: a Stop of an external id that runs while a turn on that id is
\* streaming does not cancel or alter the turn: no step of a registry request
\* changes anything of the turn, the loop ends only on a closed channel, on the
\* cancellation of its own request or by its own panic, and the context is
\* cancelled only by a step of the turn's side; a run_sse that finds the id
\* unmapped on the second check issues StartAgent, and a run_sse answers 500
\* only after a StartAgent call of its own.
C39_ResolvedMissing(p) ==
  /\ procs[p].kind = "run"
  /\ At(p, "gocCheck")
  /\ procs[p].sid \notin DOMAIN adkToGoose

C39_StopLeavesTurn ==
  /\ [][regVars' # regVars => UNCHANGED turnVars]_vars
  /\ [](pcB = "ended" => nClose > 0)
  /\ [](pcB = "cancelled" => ctxDone # "no")
  /\ [](ctxDone = "server" => pcB \in {"ended", "cancelled", "panicked"})
  /\ [][\A p \in Procs :
          C39_ResolvedMissing(p) /\ procs'[p] # procs[p]
            => /\ procs'[p].pc = "gocStart"
               /\ procs'[p].nStart = procs[p].nStart + 1]_vars
  /\ [](\A p \in Procs :
          /\ procs[p].kind = "run"
          /\ At(p, "done")
          /\ procs[p].status = StatusInternalServerError
          => procs[p].nStart >= 1)

\* The DELETE of the turn's id has been answered 200 and the id is unmapped,
\* while the turn is still streaming: the producer waits with a decoded event
\* and the loop is about to receive it.
C39_Witness ==
  /\ TurnId \notin DOMAIN adkToGoose
  /\ \E p \in Procs : /\ procs[p].kind = "delete"
                      /\ At(p, "done")
                      /\ procs[p].status = StatusOK
  /\ pcP = "send"
  /\ pending # NilPtr
  /\ pcB = "select"
  /\ ctxDone = "no"
  /\ frames = <<>>

====
